---------------------------- MODULE Spec2Model ----------------------------
(***************************************************************************)
(* A model of the codediff diff engine (src/unnamed/part_000): the         *)
(* line-level Myers alignment, the consolidation of edits into hunks, the  *)
(* statistics, the entry point run with its JSON normalisation, the        *)
(* word-level diff (tokenizeWords, computeLCS, wordDiff), HTML escaping,   *)
(* and the side-by-side and inline renderers with context collapsing.      *)
(*                                                                         *)
(* A text and a line are sequences of one-character strings.  Indices      *)
(* into line sequences are kept 0-based as in the source (li, ri, lStart,  *)
(* rStart, with -1 for an absent side); At(s, i) reads the i-th element.   *)
(***************************************************************************)
EXTENDS Integers, Sequences, FiniteSets, TLC

VARIABLES
    leftText,         \* run: the argument leftText
    rightText,        \* run: the argument rightText
    jsonMode,         \* run: options.jsonMode
    viewMode,         \* run: options.viewMode
    ignoreWhitespace, \* run: options.ignoreWhitespace, myersDiff's third argument
    runLeft,          \* run: the local left (the text, normalised in JSON mode)
    runRight,         \* run: the local right
    left,             \* myersDiff: the left line sequence (run's leftLines)
    right,            \* myersDiff: the right line sequence (run's rightLines)
    pc,               \* the statement of run that executes next
    trace,            \* myersDiff: the snapshots of V, one per step d
    edits,            \* myersDiff: the edit list after edits.reverse()
    hunks,            \* the hunk list myersDiff returned
    stats,            \* the record computeStats returned
    html,             \* run: the rendering of the hunks
    plainText,        \* run: the text renderPlainText returned
    result,           \* the value run returned
    lineA,            \* wordDiff: the argument lineA
    lineB,            \* wordDiff: the argument lineB
    tokA,             \* wordDiff: the tokens of lineA
    tokB,             \* wordDiff: the tokens of lineB
    lcs,              \* wordDiff: the sequence computeLCS returned
    leftHtml,         \* wordDiff: the marked tokens of the left side
    rightHtml,        \* wordDiff: the marked tokens of the right side
    calls,            \* the activations of run, one per caller: arguments and locals
    controller,       \* main.js: which of the two definitions of runCompare is loaded
    isComparing,      \* main.js: the flag isComparing
    btnClasses,       \* main.js: the classes runCompare puts on compareBtn
    timers,           \* main.js: the setTimeout callbacks not yet run
    toast,            \* main.js: the type of the last toast shown
    display           \* main.js: what the last compare put on the page

inputs == <<leftText, rightText, jsonMode, viewMode, ignoreWhitespace>>
engine == <<trace, edits, hunks>>
word == <<lineA, lineB, tokA, tokB, lcs, leftHtml, rightHtml>>
ui == <<controller, isComparing, btnClasses, timers, toast, display>>
vars == <<inputs, runLeft, runRight, left, right, pc, engine, stats, html, plainText,
          result, word, calls, ui>>

-----------------------------------------------------------------------------
(* Bounds and input alphabets *)

MaxLines == 3
MaxTextLen == 4
MaxLineLen == 3
MaxRenderLines == 12
MaxHunks == 4

SP == " "
TAB == "\t"

LF == "\n"
CR == "\r"

\* the characters /\s/ matches, among those the model's texts use
Whitespace == {SP, TAB, LF, CR}

LineA == <<"a">>
LineAB == <<"a", SP, "b">>
LineC == <<"c">>
LineX == <<"x">>
\* leading tab, a run of two spaces, a trailing space: folds to LineAB
LineABws == <<TAB, "a", SP, SP, "b", SP>>

LeftAlphabet == {LineA, LineAB, LineC}
RightAlphabet == {LineA, LineABws, LineX}
Alphabet == LeftAlphabet \cup RightAlphabet

SeqsUpTo(S, n) == UNION {[1..k -> S] : k \in 0..n}

-----------------------------------------------------------------------------
(* Helpers for 0-based arrays *)

At(s, i) == s[i + 1]

Min(x, y) == IF x < y THEN x ELSE y
Max(x, y) == IF x > y THEN x ELSE y

RECURSIVE Reverse(_)
Reverse(s) == IF s = <<>> THEN <<>> ELSE Append(Reverse(Tail(s)), Head(s))

-----------------------------------------------------------------------------
(* normalizeForCompare: line.replace(/\s+/g, ' ').trim() *)

\* replace(/\s+/g, ' '): every maximal run of whitespace becomes one space
RECURSIVE CollapseWs(_)
CollapseWs(line) ==
    IF line = <<>> THEN <<>>
    ELSE IF Head(line) \in Whitespace
         THEN IF Len(line) > 1 /\ line[2] \in Whitespace
              THEN CollapseWs(Tail(line))
              ELSE <<SP>> \o CollapseWs(Tail(line))
         ELSE <<Head(line)>> \o CollapseWs(Tail(line))

RECURSIVE TrimStart(_)
TrimStart(line) ==
    IF line # <<>> /\ Head(line) \in Whitespace THEN TrimStart(Tail(line)) ELSE line

\* String.prototype.trim
Trim(line) == Reverse(TrimStart(Reverse(TrimStart(line))))

normalizeForCompareNoTrim(line, iw) == IF iw THEN CollapseWs(line) ELSE line

normalizeForCompare(line, iw) == IF iw THEN Trim(CollapseWs(line)) ELSE line

-----------------------------------------------------------------------------
(* normalizeJSON: JSON.stringify(JSON.parse(text), null, 2)                  *)
(*                                                                         *)
(* JSON.parse is modelled on texts over the characters the model's texts   *)
(* use: braces, colon, comma, double quote, letters, decimal digits and    *)
(* whitespace.  A value is a number [t: "num", n], a string [t: "str", s]  *)
(* or an object [t: "obj", members], the members a sequence of [k, v] in   *)
(* the order JavaScript keeps them (first insertion; the keys here are     *)
(* never integer-like).                                                    *)

QUOTE == "\""

\* the whitespace JSON.parse skips between tokens
JsonWs == {SP, TAB, LF, CR}

Digits == <<"0", "1", "2", "3", "4", "5", "6", "7", "8", "9">>
IsDigit(c) == \E d \in 1..10 : Digits[d] = c
DigitVal(c) == (CHOOSE d \in 1..10 : Digits[d] = c) - 1

\* the characters a string literal may hold unescaped
IsStringChar(c) == c \notin {QUOTE, "\\", LF, CR, TAB}

Failed == [ok |-> FALSE]

RECURSIVE SkipWs(_, _)
SkipWs(t, i) == IF i <= Len(t) /\ t[i] \in JsonWs THEN SkipWs(t, i + 1) ELSE i

\* t[i] is the opening quote
RECURSIVE ParseStringFrom(_, _, _)
ParseStringFrom(t, i, acc) ==
    IF i > Len(t) THEN Failed
    ELSE IF t[i] = QUOTE THEN [ok |-> TRUE, v |-> [t |-> "str", s |-> acc], pos |-> i + 1]
    ELSE IF IsStringChar(t[i]) THEN ParseStringFrom(t, i + 1, Append(acc, t[i]))
    ELSE Failed

ParseString(t, i) == ParseStringFrom(t, i + 1, <<>>)

RECURSIVE ParseDigits(_, _, _)
ParseDigits(t, i, n) ==
    IF i <= Len(t) /\ IsDigit(t[i])
    THEN ParseDigits(t, i + 1, 10 * n + DigitVal(t[i]))
    ELSE [ok |-> TRUE, v |-> [t |-> "num", n |-> n], pos |-> i]

\* t[i] is a digit; a number that starts with 0 ends there
ParseNumber(t, i) ==
    IF t[i] = "0"
    THEN [ok |-> TRUE, v |-> [t |-> "num", n |-> 0], pos |-> i + 1]
    ELSE ParseDigits(t, i, 0)

\* obj[k] = v: an existing key keeps its place and takes the new value
SetMember(members, k, v) ==
    IF \E j \in 1..Len(members) : members[j].k = k
    THEN [j \in 1..Len(members) |->
            IF members[j].k = k THEN [k |-> k, v |-> v] ELSE members[j]]
    ELSE Append(members, [k |-> k, v |-> v])

RECURSIVE ParseValue(_, _)
RECURSIVE ParseMembers(_, _, _)

\* i is where a member must start: "key" : value, then , or }
ParseMembers(t, i, members) ==
    LET i1 == SkipWs(t, i)
    IN  IF i1 > Len(t) \/ t[i1] # QUOTE THEN Failed
        ELSE LET key == ParseString(t, i1)
             IN  IF ~key.ok THEN Failed
                 ELSE LET i2 == SkipWs(t, key.pos)
                      IN  IF i2 > Len(t) \/ t[i2] # ":" THEN Failed
                          ELSE LET val == ParseValue(t, i2 + 1)
                               IN  IF ~val.ok THEN Failed
                                   ELSE LET i3 == SkipWs(t, val.pos)
                                            ms == SetMember(members, key.v.s, val.v)
                                        IN  IF i3 > Len(t) THEN Failed
                                            ELSE IF t[i3] = "," THEN ParseMembers(t, i3 + 1, ms)
                                            ELSE IF t[i3] = "}"
                                                 THEN [ok |-> TRUE,
                                                       v |-> [t |-> "obj", members |-> ms],
                                                       pos |-> i3 + 1]
                                                 ELSE Failed

\* t[i] is the opening brace
ParseObject(t, i) ==
    LET i1 == SkipWs(t, i + 1)
    IN  IF i1 <= Len(t) /\ t[i1] = "}"
        THEN [ok |-> TRUE, v |-> [t |-> "obj", members |-> <<>>], pos |-> i1 + 1]
        ELSE ParseMembers(t, i1, <<>>)

ParseValue(t, i) ==
    LET i1 == SkipWs(t, i)
    IN  IF i1 > Len(t) THEN Failed
        ELSE IF t[i1] = "{" THEN ParseObject(t, i1)
        ELSE IF t[i1] = QUOTE THEN ParseString(t, i1)
        ELSE IF IsDigit(t[i1]) THEN ParseNumber(t, i1)
        ELSE Failed

\* JSON.parse(text): one value, then only whitespace; a failure is the
\* SyntaxError the source lets the caller catch
JsonParse(t) ==
    LET r == ParseValue(t, 1)
    IN  IF r.ok /\ SkipWs(t, r.pos) > Len(t) THEN [ok |-> TRUE, v |-> r.v] ELSE Failed

JsonIndent == 2

Spaces(n) == [i \in 1..n |-> SP]

RECURSIVE NatToDigits(_)
NatToDigits(n) ==
    IF n < 10 THEN <<Digits[n + 1]>>
    ELSE NatToDigits(n \div 10) \o <<Digits[(n % 10) + 1]>>

RECURSIVE Stringify(_, _)
RECURSIVE StringifyMembers(_, _, _)

\* the members from the j-th on, each on its own line, separated by ",\n"
StringifyMembers(members, j, ind) ==
    LET m == members[j]
        line == Spaces(ind) \o <<QUOTE>> \o m.k \o <<QUOTE, ":", SP>> \o Stringify(m.v, ind)
    IN  IF j = Len(members) THEN line
        ELSE line \o <<",", LF>> \o StringifyMembers(members, j + 1, ind)

\* JSON.stringify(value, null, 2) of a value nested at indentation ind
Stringify(v, ind) ==
    IF v.t = "num" THEN NatToDigits(v.n)
    ELSE IF v.t = "str" THEN <<QUOTE>> \o v.s \o <<QUOTE>>
    ELSE IF v.members = <<>> THEN <<"{", "}">>
    ELSE <<"{", LF>> \o StringifyMembers(v.members, 1, ind + JsonIndent)
         \o <<LF>> \o Spaces(ind) \o <<"}">>

normalizeJSONValidateOnly(text) ==
    IF JsonParse(text).ok
    THEN [threw |-> FALSE, text |-> text]
    ELSE [threw |-> TRUE, message |-> "SyntaxError"]

\* normalizeJSON(text): threw stands for the exception JSON.parse raises
normalizeJSON(text) ==
    LET parsed == JsonParse(text)
    IN  IF parsed.ok
        THEN [threw |-> FALSE, text |-> Stringify(parsed.v, 0)]
        ELSE [threw |-> TRUE, message |-> "SyntaxError"]

\* a split on /\n/ alone, which leaves the carriage return in the line
RECURSIVE SplitFromLFOnly(_, _, _)
SplitFromLFOnly(t, i, cur) ==
    IF i > Len(t) THEN <<cur>>
    ELSE IF t[i] = LF THEN <<cur>> \o SplitFromLFOnly(t, i + 1, <<>>)
    ELSE SplitFromLFOnly(t, i + 1, Append(cur, t[i]))

\* text.split(/\r?\n/): cur is the segment being read
RECURSIVE SplitFrom(_, _, _)
SplitFrom(t, i, cur) ==
    IF i > Len(t) THEN <<cur>>
    ELSE IF t[i] = LF THEN <<cur>> \o SplitFrom(t, i + 1, <<>>)
    ELSE IF t[i] = CR /\ i < Len(t) /\ t[i + 1] = LF
         THEN <<cur>> \o SplitFrom(t, i + 2, <<>>)
    ELSE SplitFrom(t, i + 1, Append(cur, t[i]))

\* a split that gives the empty text no line at all
splitLinesDropEmpty(text) == IF text = <<>> THEN <<>> ELSE SplitFrom(text, 1, <<>>)

splitLines(text) == SplitFrom(text, 1, <<>>)

-----------------------------------------------------------------------------
(* myersDiff, the forward search (part_000 lines 62-89) *)

\* a snake that follows the diagonal for one line at most
SnakeOneLine(a, b, x, y) ==
    IF x < Len(a) /\ y < Len(b) /\ y >= 0 /\ At(a, x) = At(b, y) THEN x + 1 ELSE x

\* while (x < n && y < m && a[x] === b[y]) { x++; y++; }   (returns the final x)
\* b[y] with y < 0 is undefined in the source and never equals a line.
RECURSIVE Snake(_, _, _, _)
Snake(a, b, x, y) ==
    IF x < Len(a) /\ y < Len(b) /\ y >= 0 /\ At(a, x) = At(b, y)
    THEN Snake(a, b, x + 1, y + 1)
    ELSE x

\* a tie-break that moves down on the lowest diagonal only
MoveDownLowestOnly(V, k, d, max) == k = -d

\* a search that moves down on every diagonal but the topmost
MoveDownAlways(V, k, d, max) == k # d

\* the tie-break shared by the search and the backtracking:
\* k === -d || (k !== d && V[idx - 1] < V[idx + 1])
MoveDown(V, k, d, max) ==
    k = -d \/ (k # d /\ V[k + max - 1] < V[k + max + 1])

\* the inner loop for (k = -d; k <= d; k += 2); done is the break outer
RECURSIVE SearchK(_, _, _, _, _, _)
SearchK(a, b, max, d, k, V) ==
    IF k > d THEN [V |-> V, done |-> FALSE]
    ELSE LET idx == k + max
             x0 == IF MoveDown(V, k, d, max) THEN V[idx + 1] ELSE V[idx - 1] + 1
             x == Snake(a, b, x0, x0 - k)
             y == x - k
             V2 == [V EXCEPT ![idx] = x]
         IN  IF x >= Len(a) /\ y >= Len(b)
             THEN [V |-> V2, done |-> TRUE]
             ELSE SearchK(a, b, max, d, k + 2, V2)

\* the outer loop for (d = 0; d <= max; d++): returns trace
RECURSIVE SearchD(_, _, _, _, _, _)
SearchD(a, b, max, d, V, tr) ==
    IF d > max THEN tr
    ELSE LET tr2 == Append(tr, V)
             r == SearchK(a, b, max, d, -d, V)
         IN  IF r.done THEN tr2 ELSE SearchD(a, b, max, d + 1, r.V, tr2)

\* new Int32Array(size): indices 0..size-1, all zero
RECURSIVE Int32Array(_)
Int32Array(size) ==
    IF size = 1 THEN 0 :> 0 ELSE Int32Array(size - 1) @@ ((size - 1) :> 0)

\* V = new Int32Array(2 * max + 1); trace = []; the outer loop
Search(a, b) ==
    LET max == Len(a) + Len(b)
    IN  SearchD(a, b, max, 0, Int32Array(2 * max + 1), <<>>)

-----------------------------------------------------------------------------
(* myersDiff, the backtracking (part_000 lines 91-116) *)

Edit(t, li, ri) == [type |-> t, li |-> li, ri |-> ri]

\* while (x > prevX && y > prevY) { x--; y--; edits.push(equal) }
RECURSIVE BackEquals(_, _, _, _, _)
BackEquals(x, y, prevX, prevY, e) ==
    IF x > prevX /\ y > prevY
    THEN BackEquals(x - 1, y - 1, prevX, prevY, Append(e, Edit("equal", x - 1, y - 1)))
    ELSE [x |-> x, y |-> y, e |-> e]

\* if (d > 0) { if (x > prevX) delete; else if (y > prevY) insert; }
BackStep(s, d, prevX, prevY) ==
    IF d > 0 /\ s.x > prevX
    THEN [x |-> s.x - 1, y |-> s.y, e |-> Append(s.e, Edit("delete", s.x - 1, -1))]
    ELSE IF d > 0 /\ s.y > prevY
         THEN [x |-> s.x, y |-> s.y - 1, e |-> Append(s.e, Edit("insert", -1, s.y - 1))]
         ELSE s

\* for (d = trace.length - 1; d >= 0 && (x > 0 || y > 0); d--); e is in push order
RECURSIVE BacktrackD(_, _, _, _, _, _)
BacktrackD(tr, max, d, x, y, e) ==
    IF ~(d >= 0 /\ (x > 0 \/ y > 0)) THEN e
    ELSE LET vPrev == At(tr, d)
             k == x - y
             prevK == IF MoveDown(vPrev, k, d, max) THEN k + 1 ELSE k - 1
             prevX == vPrev[prevK + max]
             prevY == prevX - prevK
             s == BackStep(BackEquals(x, y, prevX, prevY, e), d, prevX, prevY)
         IN  BacktrackD(tr, max, d - 1, s.x, s.y, s.e)

BacktrackNoReverse(tr, n, m) ==
    BacktrackD(tr, n + m, Len(tr) - 1, n, m, <<>>)

\* x = n, y = m; the loop; edits.reverse()
Backtrack(tr, n, m) ==
    Reverse(BacktrackD(tr, n + m, Len(tr) - 1, n, m, <<>>))

-----------------------------------------------------------------------------
(* myersDiff, the consolidation into hunks (part_000 lines 118-168) *)

NoLine == <<>>   \* the '' the source stores for an absent side

Hunk(t, lLine, rLine, lStart, rStart) ==
    [type |-> t, lLines |-> <<lLine>>, rLines |-> <<rLine>>,
     lStart |-> lStart, rStart |-> rStart]

\* while (i < edits.length && edits[i].type === t) i++   (returns the final i)
RECURSIVE SkipRun(_, _, _)
SkipRun(e, i, t) ==
    IF i < Len(e) /\ At(e, i).type = t THEN SkipRun(e, i + 1, t) ELSE i

ChangedHunksReversed(l, r, dels, ins, count) ==
    [j \in 1..count |->
        Hunk("changed", At(l, dels[j].li), At(r, ins[count + 1 - j].ri),
             dels[j].li, ins[count + 1 - j].ri)]

ChangedHunks(l, r, dels, ins, count) ==
    [j \in 1..count |->
        Hunk("changed", At(l, dels[j].li), At(r, ins[j].ri), dels[j].li, ins[j].ri)]

RemovedHunksOffByOne(l, dels, from) ==
    [j \in 1..(Len(dels) - from - 1) |->
        Hunk("removed", At(l, dels[j + from + 1].li), NoLine, dels[j + from + 1].li, -1)]

RemovedHunks(l, dels, from) ==
    [j \in 1..(Len(dels) - from) |->
        Hunk("removed", At(l, dels[j + from].li), NoLine, dels[j + from].li, -1)]

AddedHunksLeftZero(r, ins, from) ==
    [j \in 1..(Len(ins) - from) |->
        Hunk("added", NoLine, At(r, ins[j + from].ri), 0, ins[j + from].ri)]

AddedHunks(r, ins, from) ==
    [j \in 1..(Len(ins) - from) |->
        Hunk("added", NoLine, At(r, ins[j + from].ri), -1, ins[j + from].ri)]

\* const count = Math.min(dels.length, ins.length)
PairCount(dels, ins) == Min(Len(dels), Len(ins))

DeleteBlockNoPairing(l, r, dels, ins) ==
    RemovedHunks(l, dels, 0) \o AddedHunks(r, ins, 0)

\* the delete branch: the run of deletes, then the run of inserts after it
DeleteBlock(l, r, dels, ins) ==
    IF Len(dels) > 0 /\ Len(ins) > 0
    THEN LET count == PairCount(dels, ins)
         IN  ChangedHunks(l, r, dels, ins, count)
             \o RemovedHunks(l, dels, count) \o AddedHunks(r, ins, count)
    ELSE RemovedHunks(l, dels, 0) \o AddedHunks(r, ins, 0)

\* while (i < edits.length) { ... }
RECURSIVE Consolidate(_, _, _, _, _)
Consolidate(l, r, e, i, hs) ==
    IF i >= Len(e) THEN hs
    ELSE LET edit == At(e, i)
         IN  IF edit.type = "equal"
             THEN Consolidate(l, r, e, i + 1,
                     Append(hs, Hunk("equal", At(l, edit.li), At(r, edit.ri), edit.li, edit.ri)))
             ELSE IF edit.type = "delete"
             THEN LET i1 == SkipRun(e, i, "delete")
                      i2 == SkipRun(e, i1, "insert")
                      dels == SubSeq(e, i + 1, i1)
                      ins == SubSeq(e, i1 + 1, i2)
                  IN  Consolidate(l, r, e, i2, hs \o DeleteBlock(l, r, dels, ins))
             ELSE LET i1 == SkipRun(e, i, "insert")
                      ins == SubSeq(e, i + 1, i1)
                  IN  Consolidate(l, r, e, i1, hs \o AddedHunks(r, ins, 0))

\* myersDiff(left, right, ignoreWhitespace): everything it computes
myersDiff(l, r, iw) ==
    LET a == [i \in 1..Len(l) |-> normalizeForCompare(l[i], iw)]
        b == [i \in 1..Len(r) |-> normalizeForCompare(r[i], iw)]
    IN  IF Len(a) + Len(b) = 0
        THEN [trace |-> <<>>, edits |-> <<>>, hunks |-> <<>>]
        ELSE LET tr == Search(a, b)
                 e == Backtrack(tr, Len(a), Len(b))
             IN  [trace |-> tr, edits |-> e, hunks |-> Consolidate(l, r, e, 0, <<>>)]

-----------------------------------------------------------------------------
(* computeStats (part_000 lines 423-431) *)

CountType(hs, t) == Cardinality({i \in 1..Len(hs) : hs[i].type = t})

computeStatsSwapped(hs) ==
    [added |-> CountType(hs, "removed"),
     removed |-> CountType(hs, "added"),
     changed |-> CountType(hs, "changed")]

\* changed++ taken as the else of the two tests before it
computeStatsChangedElse(hs) ==
    [added |-> CountType(hs, "added"),
     removed |-> CountType(hs, "removed"),
     changed |-> Len(hs) - CountType(hs, "added") - CountType(hs, "removed")]

computeStats(hs) ==
    [added |-> CountType(hs, "added"),
     removed |-> CountType(hs, "removed"),
     changed |-> CountType(hs, "changed")]

NoStats == [added |-> 0, removed |-> 0, changed |-> 0]

-----------------------------------------------------------------------------
(* escape (part_000 lines 24-29): the five characters of ESC are replaced  *)
(* by their entities, every other character is kept.                       *)

AMP == "&"
LT == "<"
GT == ">"
APOS == "'"

EscChars == {AMP, LT, GT, QUOTE, APOS}

\* the map ESC
ESC(c) ==
    CASE c = AMP   -> <<"&", "a", "m", "p", ";">>
      [] c = LT    -> <<"&", "l", "t", ";">>
      [] c = GT    -> <<"&", "g", "t", ";">>
      [] c = QUOTE -> <<"&", "q", "u", "o", "t", ";">>
      [] c = APOS  -> <<"&", "#", "3", "9", ";">>

\* an escape whose character class lacks the apostrophe
RECURSIVE escapeNoApos(_)
escapeNoApos(str) ==
    IF str = <<>> THEN <<>>
    ELSE (IF Head(str) \in EscChars \ {APOS} THEN ESC(Head(str)) ELSE <<Head(str)>>)
         \o escapeNoApos(Tail(str))

\* str.replace(/[&<>"']/g, c => ESC[c])
RECURSIVE escape(_)
escape(str) ==
    IF str = <<>> THEN <<>>
    ELSE (IF Head(str) \in EscChars THEN ESC(Head(str)) ELSE <<Head(str)>>)
         \o escape(Tail(str))

-----------------------------------------------------------------------------
(* tokenizeWords (part_000 lines 205-208): line.match(/\w+|\s+|[^\w\s]/g)  *)
(* or [] when nothing matches.  A token is a sequence of characters.       *)

\* the characters /\w/ matches, among those the model's lines use
WordChars == {"a", "b", "c", "x", "y", "_", "0", "1", "2", "3", "9"}

\* the alternative of the pattern that matches at the character c
CharClass(c) ==
    IF c \in WordChars THEN "word" ELSE IF c \in Whitespace THEN "space" ELSE "other"

\* a pattern whose whitespace alternative matches one character, not a run
RECURSIVE MatchEndSingleSpace(_, _, _)
MatchEndSingleSpace(line, i, class) ==
    IF class = "word" /\ i < Len(line) /\ CharClass(line[i + 1]) = class
    THEN MatchEndSingleSpace(line, i + 1, class)
    ELSE i

\* the end of the match that starts at i: a run of one class, or one character
RECURSIVE MatchEnd(_, _, _)
MatchEnd(line, i, class) ==
    IF class # "other" /\ i < Len(line) /\ CharClass(line[i + 1]) = class
    THEN MatchEnd(line, i + 1, class)
    ELSE i

\* the next match of the global pattern: it starts after lastIndex, where
\* the previous match ended; st holds lastIndex and the matches so far
NextMatch(line, st) ==
    LET start == st.lastIndex + 1
        end == MatchEnd(line, start, CharClass(line[start]))
    IN  [lastIndex |-> end, matches |-> Append(st.matches, SubSeq(line, start, end))]

\* the matches are collected until the line is used up.  Here and in the
\* loops below, count bounds the iterations left and the loop condition is
\* tested on entry; the iterations run in order, in two halves.
RECURSIVE MatchAll(_, _, _)
MatchAll(line, count, st) ==
    IF count = 0 \/ ~(st.lastIndex < Len(line)) THEN st
    ELSE IF count = 1 THEN NextMatch(line, st)
    ELSE MatchAll(line, count - count \div 2, MatchAll(line, count \div 2, st))

\* line.match(/\w+|\s+|[^\w\s]/g) || []
tokenizeWords(line) ==
    MatchAll(line, Len(line), [lastIndex |-> 0, matches |-> <<>>]).matches

-----------------------------------------------------------------------------
(* computeLCS (part_000 lines 210-230).  dp is a sequence of n + 1 rows of *)
(* m + 1 entries; dp[i][j] of the source is DpAt(dp, i, j).                *)

LCSCap == 100000

\* the value an element of eight bits would hold after x is stored in it
Int8(x) == ((x + 128) % 256) - 128

\* the value an Int16Array element holds after x is stored in it
Int16(x) == ((x + 32768) % 65536) - 32768

\* new Int16Array(m + 1)
Int16Array(size) == [j \in 1..size |-> 0]

DpAt(dp, i, j) == dp[i + 1][j + 1]

\* dp[i][j] = a[i - 1] === b[j - 1] ? dp[i - 1][j - 1] + 1
\*                                   : Math.max(dp[i - 1][j], dp[i][j - 1])
\* with prev the row dp[i - 1] and row the row dp[i]
DpCell(a, b, i, j, prev, row) ==
    IF At(a, i - 1) = At(b, j - 1)
    THEN prev[j] + 1
    ELSE Max(prev[j + 1], row[j])

\* for (let j = 1; j <= m; j++) dp[i][j] = ...; st holds j and the row dp[i]
RECURSIVE DpRow(_, _, _, _, _, _)
DpRow(a, b, i, prev, count, st) ==
    IF count = 0 \/ ~(st.j <= Len(b)) THEN st
    ELSE IF count = 1
         THEN [j |-> st.j + 1,
               row |-> [st.row EXCEPT ![st.j + 1] = Int16(DpCell(a, b, i, st.j, prev, st.row))]]
    ELSE DpRow(a, b, i, prev, count - count \div 2, DpRow(a, b, i, prev, count \div 2, st))

\* for (let i = 1; i <= n; i++) ...; st holds i and the rows dp[0..i-1]
RECURSIVE DpRows(_, _, _, _)
DpRows(a, b, count, st) ==
    IF count = 0 \/ ~(st.i <= Len(a)) THEN st
    ELSE IF count = 1
         THEN [i |-> st.i + 1,
               dp |-> Append(st.dp,
                             DpRow(a, b, st.i, st.dp[st.i], Len(b),
                                   [j |-> 1, row |-> Int16Array(Len(b) + 1)]).row)]
    ELSE DpRows(a, b, count - count \div 2, DpRows(a, b, count \div 2, st))

\* const dp = Array.from({ length: n + 1 }, () => new Int16Array(m + 1)), filled
Dp(a, b) == DpRows(a, b, Len(a), [i |-> 1, dp |-> <<Int16Array(Len(b) + 1)>>]).dp

\* while (i > 0 && j > 0) { ... }; st holds i, j and result
RECURSIVE LcsBack(_, _, _, _, _)
LcsBack(a, b, dp, count, st) ==
    IF count = 0 \/ ~(st.i > 0 /\ st.j > 0) THEN st
    ELSE IF count = 1
         THEN IF At(a, st.i - 1) = At(b, st.j - 1)
              THEN [i |-> st.i - 1, j |-> st.j - 1,
                    result |-> <<At(a, st.i - 1)>> \o st.result]
              ELSE IF DpAt(dp, st.i - 1, st.j) > DpAt(dp, st.i, st.j - 1)
                   THEN [st EXCEPT !.i = st.i - 1]
              ELSE [st EXCEPT !.j = st.j - 1]
    ELSE LcsBack(a, b, dp, count - count \div 2, LcsBack(a, b, dp, count \div 2, st))

\* the table and the walk back over it
LcsOf(a, b) ==
    LcsBack(a, b, Dp(a, b), Len(a) + Len(b),
            [i |-> Len(a), j |-> Len(b), result |-> <<>>]).result

\* a cap that already takes effect at the threshold
computeLCSCapAtThreshold(a, b) ==
    LET n == Len(a)
        m == Len(b)
    IN  IF n = 0 \/ m = 0 THEN <<>>
        ELSE IF n * m >= LCSCap THEN <<>>
        ELSE LcsOf(a, b)

computeLCS(a, b) ==
    LET n == Len(a)
        m == Len(b)
    IN  IF n = 0 \/ m = 0 THEN <<>>
        ELSE IF n * m > LCSCap THEN <<>>
        ELSE LcsOf(a, b)

-----------------------------------------------------------------------------
(* wordDiff (part_000 lines 175-203).  The two html strings are kept as    *)
(* the sequence of the pieces the loop appends: the escaped token, and the *)
(* span it is wrapped in ("word-added", "word-removed") or "none".         *)

Piece(mark, tok) == [mark |-> mark, text |-> escape(tok)]

\* tokA.slice(ai).includes(lcs[li]): lcs[li] is undefined past the end of lcs
SliceIncludes(tA, ai, l, li) ==
    /\ li < Len(l)
    /\ \E p \in (ai + 1)..Len(tA) : tA[p] = At(l, li)

\* a loop body whose last branch consumes the left token without writing it
WordStepRemovedUnwritten(tA, tB, l, st) ==
    IF /\ st.ai < Len(tA) /\ st.bi < Len(tB) /\ st.li < Len(l)
       /\ At(tA, st.ai) = At(l, st.li) /\ At(tB, st.bi) = At(l, st.li)
    THEN [ai |-> st.ai + 1, bi |-> st.bi + 1, li |-> st.li + 1,
          leftHtml |-> Append(st.leftHtml, [mark |-> "none", text |-> escape(At(tA, st.ai))]),
          rightHtml |-> Append(st.rightHtml, [mark |-> "none", text |-> escape(At(tB, st.bi))])]
    ELSE IF st.bi < Len(tB)
            /\ (st.ai >= Len(tA)
                \/ ~(st.li < Len(l) /\ \E p \in (st.ai + 1)..Len(tA) : tA[p] = At(l, st.li)))
         THEN [st EXCEPT !.bi = st.bi + 1,
                         !.rightHtml = Append(@, [mark |-> "word-added",
                                                  text |-> escape(At(tB, st.bi))])]
    ELSE [st EXCEPT !.ai = st.ai + 1]

\* the body of while (ai < n || bi < m) { ... }; st holds ai, bi, li and
\* the two html strings
WordStep(tA, tB, l, st) ==
    LET n == Len(tA)
        m == Len(tB)
        ai == st.ai
        bi == st.bi
        li == st.li
    IN  IF /\ ai < n /\ bi < m /\ li < Len(l)
           /\ At(tA, ai) = At(l, li) /\ At(tB, bi) = At(l, li)
        THEN [ai |-> ai + 1, bi |-> bi + 1, li |-> li + 1,
              leftHtml |-> Append(st.leftHtml, Piece("none", At(tA, ai))),
              rightHtml |-> Append(st.rightHtml, Piece("none", At(tB, bi)))]
        ELSE IF bi < m /\ (ai >= n \/ ~SliceIncludes(tA, ai, l, li))
             THEN [st EXCEPT !.bi = bi + 1,
                             !.rightHtml = Append(@, Piece("word-added", At(tB, bi)))]
        ELSE [st EXCEPT !.ai = ai + 1,
                        !.leftHtml = Append(@, Piece("word-removed", At(tA, ai)))]

\* while (ai < n || bi < m) { ... }, at most count iterations; w holds the
\* constants tokA, tokB and lcs of the call
RECURSIVE WordWalk(_, _, _)
WordWalk(w, count, st) ==
    IF count = 0 \/ ~(st.ai < Len(w.tokA) \/ st.bi < Len(w.tokB)) THEN st
    ELSE IF count = 1 THEN WordStep(w.tokA, w.tokB, w.lcs, st)
    ELSE WordWalk(w, count - count \div 2, WordWalk(w, count \div 2, st))

\* let ai = 0, bi = 0, li = 0 ... return { leftHtml, rightHtml }
WordLoop(tA, tB, l) ==
    LET w == [tokA |-> tA, tokB |-> tB, lcs |-> l]
        st == WordWalk(w, Len(w.tokA) + Len(w.tokB),
                       [ai |-> 0, bi |-> 0, li |-> 0, leftHtml |-> <<>>, rightHtml |-> <<>>])
    IN  [leftHtml |-> st.leftHtml, rightHtml |-> st.rightHtml]

wordDiff(a, b) ==
    LET tA == tokenizeWords(a)
        tB == tokenizeWords(b)
    IN  WordLoop(tA, tB, computeLCS(tA, tB))

-----------------------------------------------------------------------------
(* The renderers (part_000 lines 235-418).  The html string is kept as     *)
(* the element returned and, for a table, the sequence of the rows the     *)
(* loop appends.  A row holds its class and its cells; a cell that shows   *)
(* code is a sequence of pieces as in wordDiff, a cell that shows a number *)
(* holds its decimal digits, and '' is the empty sequence.  Every row also *)
(* keeps the index i of the loop iteration that appended it.               *)

CONTEXT_LINES == 4

\* a test for any hunk at all: hunks.length > 0
HasChangesAnyHunk(hs) == hs # <<>>

\* hunks.some(h => h.type !== 'equal')
HasChanges(hs) == \E i \in 1..Len(hs) : hs[i].type # "equal"

NoDifferences == [element |-> "div", class |-> "no-differences"]

\* new Uint8Array(hunks.length); visible[j] of the source is visible[j + 1]
Uint8Array(size) == [j \in 1..size |-> 0]

\* for (let j = Math.max(0, i - 4); j < Math.min(hunks.length, i + 5); j++)
\* visible[j] = 1
\* (the elements 0-based j..hi-1 of the array become 1, the others stay)
MarkWindow(visible, j, hi) ==
    SubSeq(visible, 1, j) \o [k \in 1..(hi - j) |-> 1] \o SubSeq(visible, hi + 1, Len(visible))

\* a loop body whose window ends at i + CONTEXT_LINES, exclusive
MarkVisibleBodyShortWindow(hs, st) ==
    [i |-> st.i + 1,
     visible |-> IF At(hs, st.i).type # "equal"
                 THEN MarkWindow(st.visible, Max(0, st.i - CONTEXT_LINES),
                                 Min(Len(hs), st.i + CONTEXT_LINES))
                 ELSE st.visible]

\* if (hunks[i].type !== 'equal') { for (let j ...) visible[j] = 1 }; i++
\* st holds the loop variable i and the array visible
MarkVisibleBody(hs, st) ==
    [i |-> st.i + 1,
     visible |-> IF At(hs, st.i).type # "equal"
                 THEN MarkWindow(st.visible, Max(0, st.i - CONTEXT_LINES),
                                 Min(Len(hs), st.i + CONTEXT_LINES + 1))
                 ELSE st.visible]

\* for (let i = 0; i < hunks.length; i++) ..., at most count iterations
RECURSIVE MarkVisible(_, _, _)
MarkVisible(hs, count, st) ==
    IF count = 0 \/ ~(st.i < Len(hs)) THEN st
    ELSE IF count = 1 THEN MarkVisibleBody(hs, st)
    ELSE MarkVisible(hs, count - count \div 2, MarkVisible(hs, count \div 2, st))

Visible(hs) ==
    MarkVisible(hs, Len(hs), [i |-> 0, visible |-> Uint8Array(Len(hs))]).visible

\* `${n}` for a number n, and the '' shown in place of null
NumCell(n) == NatToDigits(n)
EmptyCell == <<>>

\* the html of a string that went through escape
Escaped(str) == IF str = <<>> THEN <<>> ELSE <<[mark |-> "none", text |-> escape(str)]>>

\* a separator row that reports the index it is emitted at, not the run length
SeparatorRowIndex(skipped, colspan, i) ==
    [class |-> "diff-separator", colspan |-> colspan, skipped |-> NumCell(i),
     plural |-> i # 1, i |-> i]

\* <tr class="diff-separator"><td colspan=..>.. ${skipped} unchanged line(s) ..
SeparatorRow(skipped, colspan, i) ==
    [class |-> "diff-separator", colspan |-> colspan, skipped |-> NumCell(skipped),
     plural |-> skipped # 1, i |-> i]

\* typeToRowClass: map[type] || 'line-equal'
typeToRowClass(type) ==
    CASE type = "equal"   -> "line-equal"
      [] type = "removed" -> "line-removed"
      [] type = "added"   -> "line-added"
      [] type = "changed" -> "line-changed"
      [] OTHER            -> "line-equal"

\* hunks.map(h => { ... return { l, r } }): 0 stands for null
\* the body of the callback of hunks.map; st holds the two counters and
\* the array built so far
LineNumsBody(hs, st) ==
    LET h == At(hs, st.i)
        l == IF h.lStart >= 0 THEN st.lLineNum ELSE 0
        r == IF h.rStart >= 0 THEN st.rLineNum ELSE 0
    IN  [i |-> st.i + 1,
         lLineNum |-> IF h.lStart >= 0 THEN st.lLineNum + 1 ELSE st.lLineNum,
         rLineNum |-> IF h.rStart >= 0 THEN st.rLineNum + 1 ELSE st.rLineNum,
         nums |-> Append(st.nums, [l |-> l, r |-> r])]

RECURSIVE LineNums(_, _, _)
LineNums(hs, count, st) ==
    IF count = 0 \/ ~(st.i < Len(hs)) THEN st
    ELSE IF count = 1 THEN LineNumsBody(hs, st)
    ELSE LineNums(hs, count - count \div 2, LineNums(hs, count \div 2, st))

\* the row of a visible hunk, side by side (lines 287-312)
SideRow(h, nums, i) ==
    LET wordResult == wordDiff(h.lLines[1], h.rLines[1])
        lHtml == IF h.type = "changed" THEN wordResult.leftHtml ELSE Escaped(h.lLines[1])
        rHtml == IF h.type = "changed" THEN wordResult.rightHtml ELSE Escaped(h.rLines[1])
    IN  [class |-> "diff-row", rowClass |-> typeToRowClass(h.type),
         lNum |-> IF nums.l # 0 THEN NumCell(nums.l) ELSE EmptyCell,
         lCode |-> IF h.lLines[1] # <<>> THEN lHtml ELSE EmptyCell,
         rNum |-> IF nums.r # 0 THEN NumCell(nums.r) ELSE EmptyCell,
         rCode |-> IF h.rLines[1] # <<>> THEN rHtml ELSE EmptyCell,
         i |-> i]

\* the body of the loop over the hunks (lines 270-312); st holds i,
\* skippedStart and the rows appended so far
SideRowsBody(hs, visible, lineNums, st) ==
    IF visible[st.i + 1] = 0
    THEN [i |-> st.i + 1,
          skippedStart |-> IF st.skippedStart = -1 THEN st.i ELSE st.skippedStart,
          rows |-> st.rows]
    ELSE [i |-> st.i + 1,
          skippedStart |-> -1,
          rows |-> Append(IF st.skippedStart # -1
                          THEN Append(st.rows,
                                      SeparatorRow(st.i - st.skippedStart, 6, st.i))
                          ELSE st.rows,
                          SideRow(At(hs, st.i), At(lineNums, st.i), st.i))]

\* for (let i = 0; i < hunks.length; i++) ..., at most count iterations
RECURSIVE SideRows(_, _, _, _, _)
SideRows(hs, visible, lineNums, count, st) ==
    IF count = 0 \/ ~(st.i < Len(hs)) THEN st
    ELSE IF count = 1 THEN SideRowsBody(hs, visible, lineNums, st)
    ELSE SideRows(hs, visible, lineNums, count - count \div 2,
                  SideRows(hs, visible, lineNums, count \div 2, st))

\* the separator of the hunks hidden at the end (lines 314-318 and 402-406)
ClosingSeparator(hs, st, colspan) ==
    IF st.skippedStart # -1
    THEN Append(st.rows, SeparatorRow(Len(hs) - st.skippedStart, colspan, st.i))
    ELSE st.rows

renderSideBySide(hs) ==
    IF ~HasChanges(hs) THEN NoDifferences
    ELSE LET lineNums == LineNums(hs, Len(hs), [i |-> 0, lLineNum |-> 1, rLineNum |-> 1,
                                                nums |-> <<>>]).nums
             st == SideRows(hs, Visible(hs), lineNums, Len(hs),
                            [i |-> 0, skippedStart |-> -1, rows |-> <<>>])
         IN  [element |-> "table", class |-> "diff-table",
              rows |-> ClosingSeparator(hs, st, 6)]

\* the cells of the inline gutter: a number, two spaces, the minus sign
Blank == <<SP, SP>>
Minus == <<"-">>

InlineRow(class, i, g1, g2, code) ==
    [class |-> class, gutter1 |-> g1, gutter2 |-> g2, code |-> code, i |-> i]

\* an inline rendering whose changed hunk shows the added row first
InlineRowsOfAddedFirst(h, i, ln, rn) ==
    IF h.type = "equal"
    THEN <<InlineRow("inline-equal", i, NumCell(ln), Blank, Escaped(h.lLines[1]))>>
    ELSE IF h.type = "removed"
    THEN <<InlineRow("inline-removed", i, NumCell(ln), Minus, Escaped(h.lLines[1]))>>
    ELSE IF h.type = "added"
    THEN <<InlineRow("inline-added", i, Blank, NumCell(rn), Escaped(h.rLines[1]))>>
    ELSE IF h.type = "changed"
    THEN LET wordResult == wordDiff(h.lLines[1], h.rLines[1])
         IN  <<InlineRow("inline-added", i, Blank, NumCell(rn), wordResult.rightHtml),
               InlineRow("inline-removed", i, NumCell(ln), Minus, wordResult.leftHtml)>>
    ELSE <<>>

\* the rows of a visible hunk, inline (lines 364-400); ln, rn are the
\* line numbers the branch reads
InlineRowsOf(h, i, ln, rn) ==
    IF h.type = "equal"
    THEN <<InlineRow("inline-equal", i, NumCell(ln), Blank, Escaped(h.lLines[1]))>>
    ELSE IF h.type = "removed"
    THEN <<InlineRow("inline-removed", i, NumCell(ln), Minus, Escaped(h.lLines[1]))>>
    ELSE IF h.type = "added"
    THEN <<InlineRow("inline-added", i, Blank, NumCell(rn), Escaped(h.rLines[1]))>>
    ELSE IF h.type = "changed"
    THEN LET wordResult == wordDiff(h.lLines[1], h.rLines[1])
         IN  <<InlineRow("inline-removed", i, NumCell(ln), Minus, wordResult.leftHtml),
               InlineRow("inline-added", i, Blank, NumCell(rn), wordResult.rightHtml)>>
    ELSE <<>>

\* a loop body in which a hidden hunk leaves the line counters alone
InlineRowsBodyHiddenUncounted(hs, visible, st) ==
    LET h == At(hs, st.i)
    IN  IF visible[st.i + 1] = 0
        THEN [st EXCEPT !.i = st.i + 1,
                        !.skippedStart = IF st.skippedStart = -1 THEN st.i
                                         ELSE st.skippedStart]
        ELSE [i |-> st.i + 1,
              skippedStart |-> -1,
              lLineNum |-> IF h.type \in {"equal", "removed", "changed"}
                           THEN st.lLineNum + 1 ELSE st.lLineNum,
              rLineNum |-> IF h.type \in {"equal", "added", "changed"}
                           THEN st.rLineNum + 1 ELSE st.rLineNum,
              rows |-> (IF st.skippedStart # -1
                        THEN Append(st.rows,
                                    SeparatorRow(st.i - st.skippedStart, 3, st.i))
                        ELSE st.rows)
                       \o InlineRowsOf(h, st.i, st.lLineNum, st.rLineNum)]

\* the body of the loop over the hunks (lines 347-400); st holds i,
\* skippedStart, the two line counters and the rows appended so far
InlineRowsBody(hs, visible, st) ==
    LET h == At(hs, st.i)
    IN  IF visible[st.i + 1] = 0
        THEN [i |-> st.i + 1,
              skippedStart |-> IF st.skippedStart = -1 THEN st.i ELSE st.skippedStart,
              lLineNum |-> IF h.lStart >= 0 THEN st.lLineNum + 1 ELSE st.lLineNum,
              rLineNum |-> IF h.rStart >= 0 THEN st.rLineNum + 1 ELSE st.rLineNum,
              rows |-> st.rows]
        ELSE [i |-> st.i + 1,
              skippedStart |-> -1,
              lLineNum |-> IF h.type \in {"equal", "removed", "changed"}
                           THEN st.lLineNum + 1 ELSE st.lLineNum,
              rLineNum |-> IF h.type \in {"equal", "added", "changed"}
                           THEN st.rLineNum + 1 ELSE st.rLineNum,
              rows |-> (IF st.skippedStart # -1
                        THEN Append(st.rows,
                                    SeparatorRow(st.i - st.skippedStart, 3, st.i))
                        ELSE st.rows)
                       \o InlineRowsOf(h, st.i, st.lLineNum, st.rLineNum)]

\* for (let i = 0; i < hunks.length; i++) ..., at most count iterations
RECURSIVE InlineRows(_, _, _, _)
InlineRows(hs, visible, count, st) ==
    IF count = 0 \/ ~(st.i < Len(hs)) THEN st
    ELSE IF count = 1 THEN InlineRowsBody(hs, visible, st)
    ELSE InlineRows(hs, visible, count - count \div 2,
                    InlineRows(hs, visible, count \div 2, st))

renderInline(hs) ==
    IF ~HasChanges(hs) THEN NoDifferences
    ELSE [element |-> "table", class |-> "inline-table",
          rows |-> ClosingSeparator(hs,
                      InlineRows(hs, Visible(hs), Len(hs),
                                 [i |-> 0, skippedStart |-> -1, lLineNum |-> 1,
                                  rLineNum |-> 1, rows |-> <<>>]),
                      3)]

-----------------------------------------------------------------------------
(* renderPlainText (part_000 lines 436-456) *)

PlainLine(prefix, line) == prefix \o line \o <<LF>>

\* a hunk is written only when the renderers show it
renderPlainTextVisibleOnly(hs) ==
    LET visible == Visible(hs)
        F[i \in 0..Len(hs)] ==
            IF i = 0 THEN <<>>
            ELSE LET h == hs[i]
                     out == IF h.type = "equal" THEN PlainLine(<<SP, SP>>, h.lLines[1])
                            ELSE IF h.type = "removed" THEN PlainLine(<<"-", SP>>, h.lLines[1])
                            ELSE IF h.type = "added" THEN PlainLine(<<"+", SP>>, h.rLines[1])
                            ELSE PlainLine(<<"-", SP>>, h.lLines[1])
                                 \o PlainLine(<<"+", SP>>, h.rLines[1])
                 IN  IF HasChanges(hs) /\ visible[i] = 0 THEN F[i - 1] ELSE F[i - 1] \o out
    IN  F[Len(hs)]

RECURSIVE renderPlainText(_)
renderPlainText(hs) ==
    IF hs = <<>> THEN <<>>
    ELSE LET h == Head(hs)
             out == IF h.type = "equal" THEN PlainLine(<<SP, SP>>, h.lLines[1])
                    ELSE IF h.type = "removed" THEN PlainLine(<<"-", SP>>, h.lLines[1])
                    ELSE IF h.type = "added" THEN PlainLine(<<"+", SP>>, h.rLines[1])
                    ELSE IF h.type = "changed"
                         THEN PlainLine(<<"-", SP>>, h.lLines[1])
                              \o PlainLine(<<"+", SP>>, h.rLines[1])
                         ELSE <<>>
         IN  out \o renderPlainText(Tail(hs))

-----------------------------------------------------------------------------
(* DiffEngine.run (part_000 lines 472-500), statement by statement.  The   *)
(* specification Spec enters at the call of myersDiff with any two line    *)
(* sequences; SpecRun runs the whole of run on two texts.                  *)

NoResult == [pending |-> TRUE]
NoHtml == [element |-> "none", class |-> "none"]

\* the error string: `${pane}: Invalid JSON - ${e.message}`
ErrorString(pane, message) == <<pane, ": Invalid JSON - ", message>>

TryNormalizeLeftOnly(text, pane) ==
    LET r == normalizeJSON(text)
    IN  IF ~r.threw THEN [outcome |-> "ok", text |-> r.text]
        ELSE IF pane = "Left pane"
             THEN [outcome |-> "caught", value |-> [error |-> ErrorString(pane, r.message)]]
             ELSE [outcome |-> "thrown"]

\* try { side = normalizeJSON(side); } catch (e) { return { error: ... }; }
\* an exception that no catch clause takes leaves run as outcome "thrown"
TryNormalize(text, pane) ==
    LET r == normalizeJSON(text)
    IN  IF ~r.threw THEN [outcome |-> "ok", text |-> r.text]
        ELSE [outcome |-> "caught", value |-> [error |-> ErrorString(pane, r.message)]]

\* run(leftText, rightText, options) as a function of its arguments: the
\* value it returns, or Thrown when an exception leaves it
Thrown == [thrown |-> TRUE]

RenderIn(mode, hs) ==
    IF mode = "sidebyside" THEN renderSideBySide(hs) ELSE renderInline(hs)

\* the plain text is taken from what the chosen view shows
runAfterNormalizePlainOfView(l, r, options) ==
    LET hs == myersDiff(splitLines(l), splitLines(r), options.ignoreWhitespace).hunks
    IN  [html |-> RenderIn(options.viewMode, hs),
         stats |-> computeStats(hs),
         plainText |-> IF options.viewMode = "sidebyside"
                       THEN renderPlainTextVisibleOnly(hs) ELSE renderPlainText(hs),
         hunks |-> hs]

runAfterNormalize(l, r, options) ==
    LET hs == myersDiff(splitLines(l), splitLines(r), options.ignoreWhitespace).hunks
    IN  [html |-> RenderIn(options.viewMode, hs),
         stats |-> computeStats(hs),
         plainText |-> renderPlainText(hs),
         hunks |-> hs]

run(leftText_, rightText_, options) ==
    IF ~options.jsonMode THEN runAfterNormalize(leftText_, rightText_, options)
    ELSE LET l == TryNormalize(leftText_, "Left pane")
         IN  IF l.outcome = "caught" THEN l.value
             ELSE IF l.outcome = "thrown" THEN Thrown
             ELSE LET r == TryNormalize(rightText_, "Right pane")
                  IN  IF r.outcome = "caught" THEN r.value
                      ELSE IF r.outcome = "thrown" THEN Thrown
                      ELSE runAfterNormalize(l.text, r.text, options)

\* wordDiff has not been called
NoWordDiff ==
    /\ lineA = <<>> /\ lineB = <<>>
    /\ tokA = <<>> /\ tokB = <<>>
    /\ lcs = <<>>
    /\ leftHtml = <<>> /\ rightHtml = <<>>

\* run has no activation
NoCalls == calls = <<>>

\* the page before any compare: no controller is looked at
NoDisplay == [placeholder |-> TRUE]

NoCompare ==
    /\ controller = "none"
    /\ isComparing = FALSE
    /\ btnClasses = {}
    /\ timers = {}
    /\ toast = "none"
    /\ display = NoDisplay

\* the outputs before run computes them
InitOutputs ==
    /\ trace = <<>>
    /\ edits = <<>>
    /\ hunks = <<>>
    /\ stats = NoStats
    /\ html = NoHtml
    /\ plainText = <<>>
    /\ result = NoResult

ViewModes == {"sidebyside", "inline", "undefined"}

\* any two line sequences handed to myersDiff
Init ==
    /\ leftText = <<>> /\ rightText = <<>>
    /\ runLeft = <<>> /\ runRight = <<>>
    /\ jsonMode = FALSE
    /\ viewMode = "undefined"
    /\ ignoreWhitespace \in BOOLEAN
    /\ left \in SeqsUpTo(LeftAlphabet, MaxLines)
    /\ right \in SeqsUpTo(RightAlphabet, MaxLines)
    /\ pc = "diff"
    /\ InitOutputs
    /\ NoWordDiff
    /\ NoCalls
    /\ NoCompare

\* if (options.jsonMode) { try left ... catch return; try right ... catch return }
RunNormalize ==
    /\ pc = "normalize"
    /\ UNCHANGED <<calls, ui, word, inputs, left, right, engine, stats, html, plainText>>
    /\ IF ~jsonMode
       THEN /\ pc' = "split"
            /\ UNCHANGED <<runLeft, runRight, result>>
       ELSE LET l == TryNormalize(runLeft, "Left pane")
            IN  IF l.outcome # "ok"
                THEN /\ pc' = IF l.outcome = "caught" THEN "returned" ELSE "threw"
                     /\ result' = IF l.outcome = "caught" THEN l.value ELSE result
                     /\ UNCHANGED <<runLeft, runRight>>
                ELSE LET r == TryNormalize(runRight, "Right pane")
                     IN  /\ runLeft' = l.text
                         /\ IF r.outcome # "ok"
                            THEN /\ pc' = IF r.outcome = "caught" THEN "returned" ELSE "threw"
                                 /\ result' = IF r.outcome = "caught" THEN r.value ELSE result
                                 /\ UNCHANGED runRight
                            ELSE /\ runRight' = r.text
                                 /\ pc' = "split"
                                 /\ UNCHANGED result

\* const leftLines = splitLines(left); const rightLines = splitLines(right)
RunSplit ==
    /\ pc = "split"
    /\ left' = splitLines(runLeft)
    /\ right' = splitLines(runRight)
    /\ pc' = "diff"
    /\ UNCHANGED <<calls, ui, word, inputs, runLeft, runRight, engine, stats, html, plainText, result>>

\* const hunks = myersDiff(leftLines, rightLines, options.ignoreWhitespace)
MyersDiff ==
    /\ pc = "diff"
    /\ LET res == myersDiff(left, right, ignoreWhitespace)
       IN  /\ trace' = res.trace
           /\ edits' = res.edits
           /\ hunks' = res.hunks
    /\ pc' = "stats"
    /\ UNCHANGED <<calls, ui, word, inputs, runLeft, runRight, left, right, stats, html, plainText, result>>

\* const stats = computeStats(hunks)
ComputeStats ==
    /\ pc = "stats"
    /\ stats' = computeStats(hunks)
    /\ pc' = "render"
    /\ UNCHANGED <<calls, ui, word, inputs, runLeft, runRight, left, right, engine, html, plainText, result>>

\* const html = viewMode === 'sidebyside' ? renderSideBySide(hunks) : renderInline(hunks)
RunRender ==
    /\ pc = "render"
    /\ html' = IF viewMode = "sidebyside" THEN renderSideBySide(hunks)
               ELSE renderInline(hunks)
    /\ pc' = "plain"
    /\ UNCHANGED <<calls, ui, word, inputs, runLeft, runRight, left, right, engine, stats, plainText, result>>

\* const plainText = renderPlainText(hunks)
RunPlainText ==
    /\ pc = "plain"
    /\ plainText' = renderPlainText(hunks)
    /\ pc' = "return"
    /\ UNCHANGED <<calls, ui, word, inputs, runLeft, runRight, left, right, engine, stats, html, result>>

\* return { html, stats, plainText, hunks }
RunReturn ==
    /\ pc = "return"
    /\ result' = [html |-> html, stats |-> stats, plainText |-> plainText, hunks |-> hunks]
    /\ pc' = "returned"
    /\ UNCHANGED <<calls, ui, word, inputs, runLeft, runRight, left, right, engine, stats, html, plainText>>

Next == MyersDiff \/ ComputeStats

Spec == Init /\ [][Next]_vars

\* the right sequence is an edited copy of the left one: one line replaced
\* by any line, or up to MaxLines - 1 lines appended
Replaced(l) ==
    {[l EXCEPT ![i] = line] : i \in 1..Len(l), line \in Alphabet}

Extended(l) == {l \o ext : ext \in SeqsUpTo(Alphabet, MaxLines - 1)}

InitVariant ==
    /\ leftText = <<>> /\ rightText = <<>>
    /\ runLeft = <<>> /\ runRight = <<>>
    /\ jsonMode = FALSE
    /\ viewMode = "undefined"
    /\ ignoreWhitespace \in BOOLEAN
    /\ left \in SeqsUpTo(LeftAlphabet, MaxLines)
    /\ right \in Replaced(left) \cup Extended(left)
    /\ pc = "diff"
    /\ InitOutputs
    /\ NoWordDiff
    /\ NoCalls
    /\ NoCompare

SpecVariant == InitVariant /\ [][Next]_vars

-----------------------------------------------------------------------------
(* The texts run is given: JSON documents as token sequences laid out with *)
(* a choice of whitespace between the tokens, and texts that do not parse. *)

TB == <<"{">>
TE == <<"}">>
TC == <<":">>
TM == <<",">>
KA == <<QUOTE, "a", QUOTE>>
KB == <<QUOTE, "b", QUOTE>>
N1 == <<"1">>
N2 == <<"2">>
N10 == <<"1", "0">>
SAB == <<QUOTE, "a", SP, "b", QUOTE>>

DocA == <<TB, KA, TC, N1, TE>>
DocAB == <<TB, KA, TC, N1, TM, KB, TC, N2, TE>>
DocBA == <<TB, KB, TC, N2, TM, KA, TC, N1, TE>>
DocNested == <<TB, KA, TC, TB, KB, TC, SAB, TE, TE>>
DocDup == <<TB, KA, TC, N2, TM, KA, TC, N1, TE>>
DocNum == <<N10>>
DocEmpty == <<TB, TE>>

Docs == {DocA, DocAB, DocBA, DocNested, DocDup, DocNum, DocEmpty}

\* the tokens, each followed by the gap except the last when the gap is a space
RECURSIVE Layout(_, _)
Layout(doc, gap) ==
    IF doc = <<>> THEN <<>>
    ELSE IF Len(doc) = 1 THEN Head(doc) \o (IF gap = <<SP>> THEN <<>> ELSE gap)
    ELSE Head(doc) \o gap \o Layout(Tail(doc), gap)

Compact == <<>>
Spaced == <<SP>>
OnLines == <<CR, LF>>

Unclosed == <<"{", QUOTE, "a", QUOTE, ":", "1">>
TrailingComma == <<"{", QUOTE, "a", QUOTE, ":", "1", ",", "}">>
LeadingZero == <<"0", "1">>
PlainLines == <<"a", LF, "a", SP, "b", LF>>
EmptyText == <<>>

NotJson == {Unclosed, TrailingComma, LeadingZero, PlainLines, EmptyText}

LeftTexts == {Layout(d, g) : d \in Docs, g \in {Compact, OnLines}} \cup NotJson
RightTexts == {Layout(d, g) : d \in Docs, g \in {Spaced, OnLines}} \cup NotJson

InitRun ==
    /\ leftText \in LeftTexts
    /\ rightText \in RightTexts
    /\ jsonMode \in BOOLEAN
    /\ viewMode \in ViewModes
    /\ ignoreWhitespace \in BOOLEAN
    /\ runLeft = leftText
    /\ runRight = rightText
    /\ left = <<>>
    /\ right = <<>>
    /\ pc = "normalize"
    /\ InitOutputs
    /\ NoWordDiff
    /\ NoCalls
    /\ NoCompare

NextRun ==
    \/ RunNormalize
    \/ RunSplit
    \/ MyersDiff
    \/ ComputeStats
    \/ RunRender
    \/ RunPlainText
    \/ RunReturn

SpecRun == InitRun /\ [][NextRun]_vars

-----------------------------------------------------------------------------
(* The texts splitLines is given: every text of up to MaxTextLen           *)
(* characters over a letter, the line feed and the carriage return, and    *)
(* on the right the same text with an ending put after it.                 *)

TextChars == {"a", LF, CR}
Texts == SeqsUpTo(TextChars, MaxTextLen)
Endings == {<<>>, <<LF>>, <<CR, LF>>, <<CR>>}

InitSplit ==
    /\ leftText \in Texts
    /\ rightText \in {leftText \o end : end \in Endings}
    /\ jsonMode = FALSE
    /\ viewMode = "undefined"
    /\ ignoreWhitespace = FALSE
    /\ runLeft = leftText
    /\ runRight = rightText
    /\ left = <<>>
    /\ right = <<>>
    /\ pc = "split"
    /\ InitOutputs
    /\ NoWordDiff
    /\ NoCalls
    /\ NoCompare

NextSplit == RunSplit

SpecSplit == InitSplit /\ [][NextSplit]_vars

-----------------------------------------------------------------------------
(* wordDiff on its own, statement by statement: the two lines are any      *)
(* lines of up to MaxLineLen characters over a word character, the space   *)
(* and a symbol, two lines that hold every character escape replaces, or   *)
(* two long lines of one-character tokens whose token counts multiply to   *)
(* the cap of computeLCS and to just above it.                             *)

WordAlphabet == {"a", SP, LT}
ShortLines == SeqsUpTo(WordAlphabet, MaxLineLen)

SpecialA == <<"a", AMP, LT, "b", GT, QUOTE, APOS>>
SpecialB == <<"a", AMP, AMP, "b", "_", "1", TAB, SP, APOS, LT>>

Repeat(c, n) == [i \in 1..n |-> c]

LongPairs ==
    {<<Repeat("+", 250), Repeat("+", 400)>>, <<Repeat("+", 250), Repeat("+", 401)>>,
     <<Repeat("+", 316), Repeat("+", 316)>>}

LinePairs ==
    ((ShortLines \cup {SpecialA}) \X (ShortLines \cup {SpecialB})) \cup LongPairs

runVars == <<inputs, runLeft, runRight, left, right, engine, stats, html, plainText, result,
            calls, ui>>

InitWord ==
    /\ leftText = <<>> /\ rightText = <<>>
    /\ runLeft = <<>> /\ runRight = <<>>
    /\ jsonMode = FALSE
    /\ viewMode = "undefined"
    /\ ignoreWhitespace = FALSE
    /\ left = <<>> /\ right = <<>>
    /\ InitOutputs
    /\ \E pair \in LinePairs : lineA = pair[1] /\ lineB = pair[2]
    /\ tokA = <<>> /\ tokB = <<>>
    /\ lcs = <<>>
    /\ leftHtml = <<>> /\ rightHtml = <<>>
    /\ NoCalls
    /\ NoCompare
    /\ pc = "wordDiff"

\* const tokA = tokenizeWords(lineA); const tokB = tokenizeWords(lineB)
TokenizeWords ==
    /\ pc = "wordDiff"
    /\ tokA' = tokenizeWords(lineA)
    /\ tokB' = tokenizeWords(lineB)
    /\ pc' = "computeLCS"
    /\ UNCHANGED <<runVars, lineA, lineB, lcs, leftHtml, rightHtml>>

\* const lcs = computeLCS(tokA, tokB)
ComputeLCS ==
    /\ pc = "computeLCS"
    /\ lcs' = computeLCS(tokA, tokB)
    /\ pc' = "walk"
    /\ UNCHANGED <<runVars, lineA, lineB, tokA, tokB, leftHtml, rightHtml>>

\* the loop of wordDiff and its return { leftHtml, rightHtml }
WordDiffLoop ==
    /\ pc = "walk"
    /\ LET res == WordLoop(tokA, tokB, lcs)
       IN  /\ leftHtml' = res.leftHtml
           /\ rightHtml' = res.rightHtml
    /\ pc' = "wordDone"
    /\ UNCHANGED <<runVars, lineA, lineB, tokA, tokB, lcs>>

NextWord == TokenizeWords \/ ComputeLCS \/ WordDiffLoop

SpecWord == InitWord /\ [][NextWord]_vars

-----------------------------------------------------------------------------
(* The line sequences the renderers are exercised with: on the left up to  *)
(* MaxRenderLines distinct lines, on the right the same lines after at     *)
(* most two of them were replaced, deleted or had a line put before them.  *)
(* The lines hold the characters escape replaces.                          *)

BaseLine(i) == <<LT>> \o NatToDigits(i) \o <<AMP>>
NewLine(i) == <<LT, "x", SP>> \o NatToDigits(i) \o <<GT, QUOTE, APOS>>

BaseLines(n) == [i \in 1..n |-> BaseLine(i)]

EditOps == {"replace", "delete", "insert"}

EditAt(l, p, op) ==
    IF op = "replace" THEN [l EXCEPT ![p] = NewLine(p)]
    ELSE IF op = "delete" THEN SubSeq(l, 1, p - 1) \o SubSeq(l, p + 1, Len(l))
    ELSE SubSeq(l, 1, p - 1) \o <<NewLine(p)>> \o SubSeq(l, p, Len(l))

Edited(l) ==
    {l}
    \cup {EditAt(l, p, op) : p \in 1..Len(l), op \in EditOps}
    \cup UNION {{EditAt(EditAt(l, p2, op2), p1, op1) : p1 \in 1..(p2 - 1), op1 \in EditOps}
                : p2 \in 1..Len(l), op2 \in EditOps}

InitRender ==
    /\ leftText = <<>> /\ rightText = <<>>
    /\ runLeft = <<>> /\ runRight = <<>>
    /\ jsonMode = FALSE
    /\ viewMode \in ViewModes
    /\ ignoreWhitespace = FALSE
    /\ \E n \in 0..MaxRenderLines :
          /\ left = BaseLines(n)
          /\ right \in Edited(BaseLines(n))
    /\ pc = "diff"
    /\ InitOutputs
    /\ NoWordDiff
    /\ NoCalls
    /\ NoCompare

NextRender ==
    \/ MyersDiff
    \/ ComputeStats
    \/ RunRender
    \/ RunPlainText
    \/ RunReturn

SpecRender == InitRender /\ [][NextRender]_vars

-----------------------------------------------------------------------------
(* computeStats, the renderers and renderPlainText on any hunk sequence:   *)
(* up to MaxHunks hunks of any types in any order, with or without a run   *)
(* of Equal hunks after them, each hunk holding one line per present side  *)
(* and the 0-based position of that line.                                  *)

HunkTypes == {"equal", "removed", "added", "changed"}

\* the hunks of the types ts, the counters li and ri giving the positions
RECURSIVE HunksOfTypes(_, _, _)
HunksOfTypes(ts, li, ri) ==
    IF ts = <<>> THEN <<>>
    ELSE LET t == Head(ts)
             h == IF t = "equal" THEN Hunk(t, BaseLine(li + 1), BaseLine(li + 1), li, ri)
                  ELSE IF t = "removed" THEN Hunk(t, BaseLine(li + 1), NoLine, li, -1)
                  ELSE IF t = "added" THEN Hunk(t, NoLine, NewLine(ri + 1), -1, ri)
                  ELSE Hunk(t, BaseLine(li + 1), NewLine(ri + 1), li, ri)
         IN  <<h>> \o HunksOfTypes(Tail(ts),
                                   IF t = "added" THEN li ELSE li + 1,
                                   IF t = "removed" THEN ri ELSE ri + 1)

\* the lines of one side of the hunks, in order
SideLines(hs, side) ==
    LET present == SelectSeq(hs, LAMBDA h :
                       IF side = "left" THEN h.lStart # -1 ELSE h.rStart # -1)
    IN  [k \in 1..Len(present) |->
            IF side = "left" THEN present[k].lLines[1] ELSE present[k].rLines[1]]

\* any short sequence of types, alone or followed by a run of Equal hunks
\* long enough for the renderers to hide the end of it
EqualRuns == {<<>>, Repeat("equal", CONTEXT_LINES + 2)}

HunkTypeSeqs == {ts \o tl : ts \in SeqsUpTo(HunkTypes, MaxHunks), tl \in EqualRuns}

InitHunks ==
    /\ leftText = <<>> /\ rightText = <<>>
    /\ runLeft = <<>> /\ runRight = <<>>
    /\ jsonMode = FALSE
    /\ viewMode \in ViewModes
    /\ ignoreWhitespace = FALSE
    /\ \E ts \in HunkTypeSeqs :
          /\ hunks = HunksOfTypes(ts, 0, 0)
          /\ left = SideLines(HunksOfTypes(ts, 0, 0), "left")
          /\ right = SideLines(HunksOfTypes(ts, 0, 0), "right")
    /\ trace = <<>>
    /\ edits = <<>>
    /\ stats = NoStats
    /\ html = NoHtml
    /\ plainText = <<>>
    /\ result = NoResult
    /\ pc = "stats"
    /\ NoWordDiff
    /\ NoCalls
    /\ NoCompare

NextHunks ==
    \/ ComputeStats
    \/ RunRender
    \/ RunPlainText
    \/ RunReturn

SpecHunks == InitHunks /\ [][NextHunks]_vars

-----------------------------------------------------------------------------
(* Several activations of run.  The module keeps only the constants        *)
(* CONTEXT_LINES and ESC outside its functions, so an activation is its    *)
(* arguments and its locals; each caller has one, calls run again after    *)
(* it returned, and the statements of the activations interleave freely.   *)

Callers == {1, 2}

CallTexts == {Layout(DocA, Compact), Layout(DocAB, OnLines), PlainLines}

CallOptions ==
    {[ignoreWhitespace |-> FALSE, jsonMode |-> FALSE, viewMode |-> "inline"],
     [ignoreWhitespace |-> TRUE, jsonMode |-> TRUE, viewMode |-> "sidebyside"],
     [ignoreWhitespace |-> TRUE, jsonMode |-> FALSE, viewMode |-> "undefined"]}

Idle == [pc |-> "idle"]

\* run(leftText, rightText, options = {}) { let left = leftText; let right = rightText;
NewCall(leftText_, rightText_, options) ==
    [leftText |-> leftText_, rightText |-> rightText_, options |-> options,
     left |-> leftText_, right |-> rightText_,
     leftLines |-> <<>>, rightLines |-> <<>>,
     hunks |-> <<>>, stats |-> NoStats, html |-> NoHtml, plainText |-> <<>>,
     pc |-> "normalize", result |-> NoResult]

\* the activation is between its first statement and its return
Running(f) == f.pc \notin {"idle", "returned", "threw"}

\* the hunks are kept where the next activation finds them
RunStepSharedHunks(fs, c) ==
    LET f == fs[c]
        kept == {d \in DOMAIN fs : d # c /\ fs[d].pc # "idle" /\ fs[d].hunks # <<>>}
    IN  IF f.pc = "normalize"
        THEN [f EXCEPT !.pc = "split"]
        ELSE IF f.pc = "split"
        THEN [f EXCEPT !.leftLines = splitLines(f.left),
                       !.rightLines = splitLines(f.right), !.pc = "diff"]
        ELSE IF f.pc = "diff"
        THEN [f EXCEPT !.hunks = IF kept # {} THEN fs[CHOOSE d \in kept : TRUE].hunks
                                 ELSE myersDiff(f.leftLines, f.rightLines,
                                                f.options.ignoreWhitespace).hunks,
                       !.pc = "stats"]
        ELSE IF f.pc = "stats"
        THEN [f EXCEPT !.stats = computeStats(f.hunks), !.pc = "render"]
        ELSE IF f.pc = "render"
        THEN [f EXCEPT !.html = RenderIn(f.options.viewMode, f.hunks), !.pc = "plain"]
        ELSE IF f.pc = "plain"
        THEN [f EXCEPT !.plainText = renderPlainText(f.hunks), !.pc = "return"]
        ELSE [f EXCEPT !.result = [html |-> f.html, stats |-> f.stats,
                                   plainText |-> f.plainText, hunks |-> f.hunks],
                       !.pc = "returned"]

\* the activation of caller c after its next statement (lines 473-499);
\* the statement reads and writes the activation's own locals only
RunStep(fs, c) ==
    LET f == fs[c]
    IN  IF f.pc = "normalize"
        THEN IF ~f.options.jsonMode THEN [f EXCEPT !.pc = "split"]
             ELSE LET l == TryNormalize(f.left, "Left pane")
                  IN  IF l.outcome = "caught"
                      THEN [f EXCEPT !.result = l.value, !.pc = "returned"]
                      ELSE IF l.outcome = "thrown" THEN [f EXCEPT !.pc = "threw"]
                      ELSE LET r == TryNormalize(f.right, "Right pane")
                           IN  IF r.outcome = "caught"
                               THEN [f EXCEPT !.left = l.text, !.result = r.value,
                                              !.pc = "returned"]
                               ELSE IF r.outcome = "thrown"
                               THEN [f EXCEPT !.left = l.text, !.pc = "threw"]
                               ELSE [f EXCEPT !.left = l.text, !.right = r.text,
                                              !.pc = "split"]
        ELSE IF f.pc = "split"
        THEN [f EXCEPT !.leftLines = splitLines(f.left),
                       !.rightLines = splitLines(f.right), !.pc = "diff"]
        ELSE IF f.pc = "diff"
        THEN [f EXCEPT !.hunks = myersDiff(f.leftLines, f.rightLines,
                                           f.options.ignoreWhitespace).hunks,
                       !.pc = "stats"]
        ELSE IF f.pc = "stats"
        THEN [f EXCEPT !.stats = computeStats(f.hunks), !.pc = "render"]
        ELSE IF f.pc = "render"
        THEN [f EXCEPT !.html = RenderIn(f.options.viewMode, f.hunks), !.pc = "plain"]
        ELSE IF f.pc = "plain"
        THEN [f EXCEPT !.plainText = renderPlainText(f.hunks), !.pc = "return"]
        ELSE [f EXCEPT !.result = [html |-> f.html, stats |-> f.stats,
                                   plainText |-> f.plainText, hunks |-> f.hunks],
                       !.pc = "returned"]

single == <<inputs, runLeft, runRight, left, right, pc, engine, stats, html, plainText,
            result, word>>

InitCalls ==
    /\ leftText = <<>> /\ rightText = <<>>
    /\ runLeft = <<>> /\ runRight = <<>>
    /\ jsonMode = FALSE
    /\ viewMode = "undefined"
    /\ ignoreWhitespace = FALSE
    /\ left = <<>> /\ right = <<>>
    /\ pc = "idle"
    /\ InitOutputs
    /\ NoWordDiff
    /\ NoCompare
    /\ calls = [c \in Callers |-> Idle]

\* caller c calls DiffEngine.run with any arguments
CallRun(c) ==
    /\ ~Running(calls[c])
    /\ \E lt \in CallTexts, rt \in CallTexts, o \in CallOptions :
          calls' = [calls EXCEPT ![c] = NewCall(lt, rt, o)]
    /\ UNCHANGED <<single, ui>>

\* the activation of caller c executes its next statement
StepRun(c) ==
    /\ Running(calls[c])
    /\ calls' = [calls EXCEPT ![c] = RunStep(calls, c)]
    /\ UNCHANGED <<single, ui>>

NextCalls ==
    \/ \E c \in Callers : CallRun(c)
    \/ \E c \in Callers : StepRun(c)

SpecCalls == InitCalls /\ [][NextCalls]_vars

-----------------------------------------------------------------------------
(* The UI controller around DiffEngine.run (js/main.js).  The file holds   *)
(* two versions of the controller, told apart by the variable controller:  *)
(* "first" is the one of lines 60-1000 (runCompare at 195-245), "second"   *)
(* the one of lines 1040-1747 (runCompare at 1179-1235).  leftText and     *)
(* rightText are the values of the two editors, jsonMode and               *)
(* ignoreWhitespace the two checkboxes, viewMode is currentViewMode.       *)
(* timers is the set of the pending setTimeout callbacks, each with what   *)
(* its closure captured; btnClasses is compareBtn.classList; toast is the  *)
(* last toast shown, display the stats shown and lastPlainText.            *)

\* the most callbacks pending at once
MaxTimers == 2

\* what an editor may be made to hold: nothing, white space, lines that are
\* no JSON document
EditorTexts == {<<>>, <<SP, LF>>, PlainLines}

\* the calls of DiffEngine.run the controller can make
CompareOptions ==
    [ignoreWhitespace : {FALSE}, jsonMode : BOOLEAN, viewMode : {"sidebyside", "inline"}]

\* the editor texts with text.trim() not empty
Filled == {text \in EditorTexts : Trim(text) # <<>>}

\* !text.trim() for the value of an editor
IsBlank(text) == text \notin Filled

\* DiffEngine.run is a function of its arguments alone; calls holds, from the
\* initial state on, what it returns for every call the controller can make
Returns(l, r, o) == calls[<<l, r, o>>]

CompareTimer(showLoadAnim, l, r) ==
    [kind |-> "compare", showLoadAnim |-> showLoadAnim, leftText |-> l, rightText |-> r]
ResetTimer == [kind |-> "reset"]
AutoTimer == [kind |-> "auto"]

\* what runCompare and the callbacks change
Controls == [isComparing |-> isComparing, btnClasses |-> btnClasses,
             timers |-> timers, toast |-> toast]

\* runCompare(showLoadAnim) up to its setTimeout, on the editor values l, r
runCompare(showLoadAnim, l, r, s) ==
    IF s.isComparing THEN s
    ELSE IF IsBlank(l) /\ IsBlank(r) THEN [s EXCEPT !.toast = "Both panes are empty"]
    ELSE IF IsBlank(l) THEN [s EXCEPT !.toast = "Left pane is empty"]
    ELSE IF IsBlank(r) THEN [s EXCEPT !.toast = "Right pane is empty"]
    ELSE [s EXCEPT !.isComparing = IF showLoadAnim THEN TRUE ELSE @,
                   !.btnClasses = IF showLoadAnim THEN @ \cup {"loading"} ELSE @,
                   !.timers = @ \cup {CompareTimer(showLoadAnim, l, r)}]

\* if (editorLeft.value.trim() && editorRight.value.trim()) runCompare(false)
runCompareIfFilled(l, r, s) ==
    IF ~IsBlank(l) /\ ~IsBlank(r) THEN runCompare(FALSE, l, r, s) ELSE s

\* a finally clause of the second controller that leaves the flag alone
FinallyFlagKept(showLoadAnim, s) ==
    IF ~showLoadAnim THEN s
    ELSE IF controller = "first"
         THEN [s EXCEPT !.btnClasses = @ \cup {"fade-out"}, !.timers = @ \cup {ResetTimer}]
    ELSE [s EXCEPT !.btnClasses = @ \ {"loading"}]

\* finally { if (showLoadAnim) { ... } }: the first controller fades the
\* button out and resets after 260 ms, the second resets at once
Finally(showLoadAnim, s) ==
    IF ~showLoadAnim THEN s
    ELSE IF controller = "first"
         THEN [s EXCEPT !.btnClasses = @ \cup {"fade-out"}, !.timers = @ \cup {ResetTimer}]
    ELSE [s EXCEPT !.btnClasses = @ \ {"loading"}, !.isComparing = FALSE]

Assign(s) ==
    /\ isComparing' = s.isComparing
    /\ btnClasses' = s.btnClasses
    /\ timers' = s.timers
    /\ toast' = s.toast

engineVars == <<runLeft, runRight, left, right, pc, engine, stats, html, plainText, result,
               word, calls>>

InitCompare ==
    /\ controller \in {"first", "second"}
    /\ viewMode = (IF controller = "first" THEN "inline" ELSE "sidebyside")
    /\ leftText = <<>> /\ rightText = <<>>
    /\ jsonMode = FALSE
    /\ ignoreWhitespace = FALSE
    /\ isComparing = FALSE
    /\ btnClasses = {}
    /\ timers = {}
    /\ toast = "none"
    /\ display = NoDisplay
    /\ runLeft = <<>> /\ runRight = <<>>
    /\ left = <<>> /\ right = <<>>
    /\ pc = "ui"
    /\ InitOutputs
    /\ NoWordDiff
    /\ calls = [call \in Filled \X Filled \X CompareOptions |->
                   run(call[1], call[2], call[3])]

\* the input event of an editor: autoCompare() restarts its 400 ms timer
EditorInput ==
    /\ Cardinality(timers \cup {AutoTimer}) <= MaxTimers
    /\ \E side \in {"left", "right"}, text \in EditorTexts :
          /\ leftText' = (IF side = "left" THEN text ELSE leftText)
          /\ rightText' = (IF side = "right" THEN text ELSE rightText)
    /\ timers' = timers \cup {AutoTimer}
    /\ UNCHANGED <<engineVars, controller, jsonMode, viewMode, ignoreWhitespace,
                   isComparing, btnClasses, toast, display>>

\* the callback of autoCompare
AutoCompareFires ==
    /\ AutoTimer \in timers
    /\ Assign(runCompareIfFilled(leftText, rightText,
                                 [Controls EXCEPT !.timers = @ \ {AutoTimer}]))
    /\ UNCHANGED <<engineVars, controller, inputs, display>>

\* the change event of the jsonMode checkbox (the ignoreWhitespace checkbox
\* has the same listener)
OptionChange ==
    /\ Cardinality(timers) < MaxTimers
    /\ jsonMode' = ~jsonMode
    /\ Assign(runCompareIfFilled(leftText, rightText, Controls))
    /\ UNCHANGED <<engineVars, controller, leftText, rightText, viewMode, ignoreWhitespace,
                   display>>

\* setViewMode(mode)
SetViewMode ==
    /\ Cardinality(timers) < MaxTimers
    /\ \E mode \in {"sidebyside", "inline"} : viewMode' = mode
    /\ Assign(runCompareIfFilled(leftText, rightText, Controls))
    /\ UNCHANGED <<engineVars, controller, leftText, rightText, jsonMode, ignoreWhitespace,
                   display>>

\* the click on compareBtn, or Ctrl+Enter: runCompare(true)
CompareRequested ==
    /\ Cardinality(timers) < MaxTimers
    /\ Assign(runCompare(TRUE, leftText, rightText, Controls))
    /\ UNCHANGED <<engineVars, controller, inputs, display>>

\* the callback runCompare hands to setTimeout: try, catch and finally.  An
\* exception may leave DiffEngine.run (it allocates arrays that grow with the
\* square of the line count) or one of the updates after it.
CompareFires(t) ==
    /\ t \in timers /\ t.kind = "compare"
    /\ \E outcome \in {"completes", "run throws", "update throws"} :
          LET r == Returns(t.leftText, t.rightText,
                           [ignoreWhitespace |-> ignoreWhitespace, jsonMode |-> jsonMode,
                            viewMode |-> viewMode])
              s == [Controls EXCEPT !.timers = @ \ {t}]
              shown == [stats |-> r.stats, plainText |-> r.plainText]
          IN  IF outcome = "run throws"
              THEN /\ Assign(Finally(t.showLoadAnim, [s EXCEPT !.toast = "Compare failed"]))
                   /\ UNCHANGED display
              ELSE IF "error" \in DOMAIN r
              THEN /\ outcome = "completes"
                   /\ Assign(Finally(t.showLoadAnim, [s EXCEPT !.toast = "Invalid JSON"]))
                   /\ UNCHANGED display
              ELSE /\ display' = shown
                   /\ Assign(Finally(t.showLoadAnim,
                                     IF outcome = "update throws"
                                     THEN [s EXCEPT !.toast = "Compare failed"] ELSE s))
    /\ UNCHANGED <<engineVars, controller, inputs>>

\* the callback of the first controller's finally, 260 ms later
ResetFires ==
    /\ ResetTimer \in timers
    /\ isComparing' = FALSE
    /\ btnClasses' = btnClasses \ {"loading", "fade-out"}
    /\ timers' = timers \ {ResetTimer}
    /\ UNCHANGED <<engineVars, controller, inputs, toast, display>>

CompareCallback(showLoadAnim) ==
    \E t \in timers : t.kind = "compare" /\ t.showLoadAnim = showLoadAnim /\ CompareFires(t)

NextCompare ==
    \/ EditorInput
    \/ OptionChange
    \/ SetViewMode
    \/ CompareRequested
    \/ AutoCompareFires
    \/ CompareCallback(TRUE)
    \/ CompareCallback(FALSE)
    \/ ResetFires

SpecCompare == InitCompare /\ [][NextCompare]_vars

\* every callback handed to setTimeout is run by the event loop
TimersFire ==
    /\ WF_vars(CompareCallback(TRUE))
    /\ WF_vars(CompareCallback(FALSE))
    /\ WF_vars(AutoCompareFires)
    /\ WF_vars(ResetFires)

SpecCompareFair == SpecCompare /\ TimersFire

-----------------------------------------------------------------------------
(* Reference notions the properties are stated with *)

\* the maximal runs of non-whitespace characters of a line, in order
RECURSIVE WordsFrom(_, _, _)
WordsFrom(line, i, cur) ==
    LET flush == IF cur = <<>> THEN <<>> ELSE <<cur>>
    IN  IF i > Len(line) THEN flush
        ELSE IF line[i] \in Whitespace
             THEN flush \o WordsFrom(line, i + 1, <<>>)
             ELSE WordsFrom(line, i + 1, Append(cur, line[i]))

Words(line) == WordsFrom(line, 1, <<>>)

\* the active line comparison: identical after folding, or identical
SameLine(l, r, iw) == IF iw THEN Words(l) = Words(r) ELSE l = r

\* the length of a longest common subsequence of l[1..i] and r[1..j]
RECURSIVE LCSLen(_, _, _, _, _)
LCSLen(l, r, iw, i, j) ==
    IF i = 0 \/ j = 0 THEN 0
    ELSE IF SameLine(l[i], r[j], iw)
         THEN LCSLen(l, r, iw, i - 1, j - 1) + 1
         ELSE Max(LCSLen(l, r, iw, i - 1, j), LCSLen(l, r, iw, i, j - 1))

\* myersDiff has returned its hunks; computeStats has returned the stats
Returned ==
    \/ pc \in {"stats", "render", "plain", "return"}
    \/ pc = "returned" /\ "hunks" \in DOMAIN result
Counted == Returned /\ pc # "stats"

HunkIdx == 1..Len(hunks)

\* the edits behind a hunk: a changed hunk is one delete plus one insert
EditsBehind(h) ==
    IF h.type = "changed" THEN 2 ELSE IF h.type = "equal" THEN 0 ELSE 1

RECURSIVE SumEditsBehind(_)
SumEditsBehind(hs) ==
    IF hs = <<>> THEN 0 ELSE EditsBehind(Head(hs)) + SumEditsBehind(Tail(hs))

\* the hunks that have a left side (a right side), in order
RECURSIVE WithLeft(_)
WithLeft(hs) ==
    IF hs = <<>> THEN <<>>
    ELSE (IF Head(hs).lStart >= 0 THEN <<Head(hs)>> ELSE <<>>) \o WithLeft(Tail(hs))

RECURSIVE WithRight(_)
WithRight(hs) ==
    IF hs = <<>> THEN <<>>
    ELSE (IF Head(hs).rStart >= 0 THEN <<Head(hs)>> ELSE <<>>) \o WithRight(Tail(hs))

LStarts(hs) == [i \in 1..Len(hs) |-> hs[i].lStart]
RStarts(hs) == [i \in 1..Len(hs) |-> hs[i].rStart]
LeftLines(hs) == [i \in 1..Len(hs) |-> hs[i].lLines[1]]
RightLines(hs) == [i \in 1..Len(hs) |-> hs[i].rLines[1]]

StrictlyIncreasing(s) == \A i, j \in 1..Len(s) : i < j => s[i] < s[j]

-----------------------------------------------------------------------------
(* C1: the hunks myersDiff returns stand for a minimal edit script.  For    *)
(* any two line sequences and either setting of ignoreWhitespace, the       *)
(* number of non-Equal edits behind the hunks (a Changed hunk counts two,   *)
(* a Removed or Added hunk one) equals n + m - 2 * LCS(left, right) under   *)
(* the active line comparison.                                              *)
C1_EditCountMinimal ==
    Returned =>
        SumEditsBehind(hunks)
            = Len(left) + Len(right)
              - 2 * LCSLen(left, right, ignoreWhitespace, Len(left), Len(right))

\* a diff with a common line, a paired change and a surplus edit
C1_Witness ==
    /\ Returned
    /\ LCSLen(left, right, ignoreWhitespace, Len(left), Len(right)) >= 1
    /\ SumEditsBehind(hunks) >= 3
    /\ \E i \in HunkIdx : hunks[i].type = "changed"

(* C2: hunk coverage.  Every left index 0..n-1 is the lStart of exactly one *)
(* hunk and every right index 0..m-1 the rStart of exactly one hunk; the    *)
(* non-negative lStart values and the non-negative rStart values strictly   *)
(* increase along the hunk list; the left lines of the hunks that have a    *)
(* left side, concatenated in order, are the left sequence, and likewise    *)
(* on the right.                                                            *)
C2_HunkCoverage ==
    Returned =>
        /\ \A i \in 0..(Len(left) - 1) :
              Cardinality({h \in HunkIdx : hunks[h].lStart = i}) = 1
        /\ \A i \in 0..(Len(right) - 1) :
              Cardinality({h \in HunkIdx : hunks[h].rStart = i}) = 1
        /\ StrictlyIncreasing(LStarts(WithLeft(hunks)))
        /\ StrictlyIncreasing(RStarts(WithRight(hunks)))
        /\ LeftLines(WithLeft(hunks)) = left
        /\ RightLines(WithRight(hunks)) = right

\* a diff of two three-line inputs with hunks of at least three kinds
C2_Witness ==
    /\ Returned
    /\ Len(left) = 3 /\ Len(right) = 3
    /\ Cardinality({hunks[h].type : h \in HunkIdx}) >= 3

\* the edit list applied to the left sequence: an Equal edit keeps left[li],
\* a Delete edit drops its line, an Insert edit appends right[ri]
RECURSIVE ApplyEdits(_, _, _, _)
ApplyEdits(e, l, r, out) ==
    IF e = <<>> THEN out
    ELSE LET ed == Head(e)
         IN  IF ed.type = "equal" THEN ApplyEdits(Tail(e), l, r, Append(out, At(l, ed.li)))
             ELSE IF ed.type = "delete" THEN ApplyEdits(Tail(e), l, r, out)
             ELSE ApplyEdits(Tail(e), l, r, Append(out, At(r, ed.ri)))

\* every Equal and Insert edit sits at the position its ri records
InsertsInPlace(e) ==
    \A i \in 1..Len(e) :
        e[i].type # "delete" =>
            e[i].ri = Cardinality({j \in 1..(i - 1) : e[j].type # "delete"})

(* C3: the reconstruction law.  Applying the edit list to the left         *)
(* sequence (an Equal edit keeps left[li], a Delete edit drops its line,   *)
(* an Insert edit puts right[ri] at position ri) gives a sequence of the   *)
(* right sequence's length whose every line equals the right line at that  *)
(* position under the active line comparison: the right sequence exactly   *)
(* when ignoreWhitespace is unset, and up to whitespace folding of the     *)
(* lines kept by Equal edits when it is set.                               *)
C3_ReconstructsUpToComparison ==
    Returned =>
        LET out == ApplyEdits(edits, left, right, <<>>)
        IN  /\ InsertsInPlace(edits)
            /\ Len(out) = Len(right)
            /\ \A i \in 1..Len(out) : SameLine(out[i], right[i], ignoreWhitespace)
            /\ ~ignoreWhitespace => out = right

\* C3 as stated: the right sequence is reconstructed exactly, for all inputs
C3_ReconstructsExactly ==
    Returned => ApplyEdits(edits, left, right, <<>>) = right

\* an edit list with all three kinds of edit, one Equal edit keeping a line
\* that differs from the right line in whitespace only
C3_Witness ==
    /\ Returned
    /\ {edits[i].type : i \in 1..Len(edits)} = {"equal", "delete", "insert"}
    /\ \E i \in 1..Len(edits) :
          /\ edits[i].type = "equal"
          /\ At(left, edits[i].li) # At(right, edits[i].ri)

(* C4: the shape of a hunk.  Every hunk holds one line per side; an equal   *)
(* or changed hunk has both sides present (lStart >= 0 and rStart >= 0),    *)
(* an added hunk only the right side (lStart = -1, rStart >= 0), a removed  *)
(* hunk only the left side (lStart >= 0, rStart = -1); no other type        *)
(* occurs.                                                                  *)
C4_HunkShape ==
    Returned =>
        \A h \in HunkIdx :
            /\ hunks[h].type \in {"equal", "changed", "added", "removed"}
            /\ Len(hunks[h].lLines) = 1 /\ Len(hunks[h].rLines) = 1
            /\ hunks[h].type \in {"equal", "changed"} =>
                  hunks[h].lStart >= 0 /\ hunks[h].rStart >= 0
            /\ hunks[h].type = "added" =>
                  hunks[h].lStart = -1 /\ hunks[h].rStart >= 0
            /\ hunks[h].type = "removed" =>
                  hunks[h].lStart >= 0 /\ hunks[h].rStart = -1

\* a hunk list in which all four types occur
C4_Witness ==
    /\ Returned
    /\ \E h1, h2, h3 \in HunkIdx :
          /\ hunks[h1].type = "equal"
          /\ hunks[h2].type = "changed"
          /\ hunks[h3].type \in {"added", "removed"}

\* the index after the maximal run of edits of type t that starts at i
RunEnd(e, i, t) ==
    CHOOSE j \in i..(Len(e) + 1) :
        /\ \A k \in i..(j - 1) : e[k].type = t
        /\ j = Len(e) + 1 \/ e[j].type # t

IsHunk(h, t, lLine, rLine, lStart, rStart) ==
    /\ h.type = t
    /\ h.lLines = <<lLine>> /\ h.rLines = <<rLine>>
    /\ h.lStart = lStart /\ h.rStart = rStart

DeleteRunStarts(e) ==
    {i \in 1..Len(e) : e[i].type = "delete" /\ (i = 1 \/ e[i - 1].type # "delete")}

LoneInsertRunStarts(e) ==
    {i \in 1..Len(e) : e[i].type = "insert" /\ (i = 1 \/ e[i - 1].type = "equal")}

BlockP(e, i) == RunEnd(e, i, "delete") - i
BlockQ(e, i) == RunEnd(e, i + BlockP(e, i), "insert") - (i + BlockP(e, i))

RECURSIVE SumMin(_, _)
SumMin(e, starts) ==
    IF starts = {} THEN 0
    ELSE LET i == CHOOSE x \in starts : TRUE
         IN  Min(BlockP(e, i), BlockQ(e, i)) + SumMin(e, starts \ {i})

BlockConsolidated(e, i) ==
    LET p == BlockP(e, i)
        q == BlockQ(e, i)
        c == Min(p, q)
    IN  \E h0 \in HunkIdx :
            /\ hunks[h0].lStart = e[i].li
            /\ h0 + Max(p, q) - 1 <= Len(hunks)
            /\ \A j \in 1..c :
                  IsHunk(hunks[h0 + j - 1], "changed",
                         At(left, e[i + j - 1].li), At(right, e[i + p + j - 1].ri),
                         e[i + j - 1].li, e[i + p + j - 1].ri)
            /\ \A j \in (c + 1)..p :
                  IsHunk(hunks[h0 + j - 1], "removed",
                         At(left, e[i + j - 1].li), NoLine, e[i + j - 1].li, -1)
            /\ \A j \in (c + 1)..q :
                  IsHunk(hunks[h0 + j - 1], "added",
                         NoLine, At(right, e[i + p + j - 1].ri), -1, e[i + p + j - 1].ri)

LoneInsertsConsolidated(e, i) ==
    LET q == RunEnd(e, i, "insert") - i
    IN  \E h0 \in HunkIdx :
            /\ hunks[h0].rStart = e[i].ri
            /\ h0 + q - 1 <= Len(hunks)
            /\ \A j \in 1..q :
                  IsHunk(hunks[h0 + j - 1], "added",
                         NoLine, At(right, e[i + j - 1].ri), -1, e[i + j - 1].ri)

(* C5: positional pairing.  For every maximal run of p Delete edits         *)
(* immediately followed by a maximal run of q Insert edits the hunk list    *)
(* holds, in this order, min(p, q) changed hunks, the j-th pairing the      *)
(* j-th deleted line with the j-th inserted line, then p - min(p, q)        *)
(* removed hunks or q - min(p, q) added hunks for the surplus; a run of     *)
(* inserts that follows no delete gives added hunks only; and no other      *)
(* changed hunk exists.                                                     *)
C5_PositionalPairing ==
    Returned =>
        /\ \A i \in DeleteRunStarts(edits) : BlockConsolidated(edits, i)
        /\ \A i \in LoneInsertRunStarts(edits) : LoneInsertsConsolidated(edits, i)
        /\ Cardinality({h \in HunkIdx : hunks[h].type = "changed"})
              = SumMin(edits, DeleteRunStarts(edits))
        /\ Len(hunks) = Len(edits) - SumMin(edits, DeleteRunStarts(edits))

\* a block of three deletes and two inserts: two pairs and one surplus delete
C5_Witness ==
    /\ Returned
    /\ \E i \in DeleteRunStarts(edits) : BlockP(edits, i) = 3 /\ BlockQ(edits, i) = 2
    /\ Len(hunks) = 3
    /\ hunks[1].type = "changed" /\ hunks[2].type = "changed"
    /\ hunks[3].type = "removed"

\* right is left with the line at position i replaced
ReplacedAt(i) ==
    /\ Len(right) = Len(left)
    /\ i \in 1..Len(left)
    /\ \A j \in 1..Len(left) : j # i => right[j] = left[j]

OneChangedAt(i) ==
    /\ Len(hunks) = Len(left)
    /\ \A p \in 1..Len(left) :
          IsHunk(hunks[p], IF p = i THEN "changed" ELSE "equal",
                 left[p], right[p], p - 1, p - 1)
    /\ Counted => stats = [added |-> 0, removed |-> 0, changed |-> 1]

(* C6: a single replaced line.  When the left lines are pairwise distinct   *)
(* under the active line comparison and right is left with the line at     *)
(* one position replaced by a line that equals no left line under that     *)
(* comparison, the hunks are one equal hunk for every other position and   *)
(* one changed hunk at that position, pairing the old line with the new,   *)
(* and the stats are {added: 0, removed: 0, changed: 1}.                   *)
C6_SingleReplacement ==
    Returned =>
        \A i \in 1..Len(left) :
            ( /\ ReplacedAt(i)
              /\ \A p, q \in 1..Len(left) :
                    p # q => ~SameLine(left[p], left[q], ignoreWhitespace)
              /\ \A p \in 1..Len(left) :
                    ~SameLine(right[i], left[p], ignoreWhitespace) )
            => OneChangedAt(i)

\* C6 as stated: the lines are distinct, and the new line is new, as strings
C6_SingleReplacementOfStrings ==
    Returned =>
        \A i \in 1..Len(left) :
            ( /\ ReplacedAt(i)
              /\ \A p, q \in 1..Len(left) : p # q => left[p] # left[q]
              /\ \A p \in 1..Len(left) : right[i] # left[p] )
            => OneChangedAt(i)

\* three distinct lines, the first one replaced, whitespace ignored, stats taken
C6_Witness ==
    /\ Counted
    /\ ignoreWhitespace
    /\ Len(left) = 3 /\ ReplacedAt(1)
    /\ right[1] = LineX
    /\ OneChangedAt(1)
    /\ Cardinality({left[p] : p \in 1..3}) = 3

\* l is r without one or more lines at its end
IsProperPrefix(l, r) == Len(l) < Len(r) /\ SubSeq(r, 1, Len(l)) = l

(* C7: appended lines.  When the left sequence is a proper prefix of the    *)
(* right sequence (repeated lines allowed) the hunks are one equal hunk     *)
(* per left line followed by one added hunk per extra line, in order, and   *)
(* the stats are {added: j, removed: 0, changed: 0} for j extra lines.      *)
C7_AppendedLines ==
    (Returned /\ IsProperPrefix(left, right)) =>
        /\ Len(hunks) = Len(right)
        /\ \A p \in 1..Len(left) :
              IsHunk(hunks[p], "equal", left[p], right[p], p - 1, p - 1)
        /\ \A p \in (Len(left) + 1)..Len(right) :
              IsHunk(hunks[p], "added", NoLine, right[p], -1, p - 1)
        /\ Counted =>
              stats = [added |-> Len(right) - Len(left), removed |-> 0, changed |-> 0]

\* two equal lines followed by two more copies of the same line
C7_Witness ==
    /\ Counted
    /\ left = <<LineA, LineA>>
    /\ right = <<LineA, LineA, LineA, LineA>>
    /\ stats.added = 2

(* C8: the line comparison.  With ignoreWhitespace set two lines align as   *)
(* equal exactly when they are identical after folding (runs of whitespace  *)
(* collapsed to one space, ends trimmed), with it unset exactly when they   *)
(* are identical; every hunk carries the original, unfolded lines of the    *)
(* sides it has.                                                            *)
C8_ComparisonAndOriginals ==
    Returned =>
        /\ \A h \in HunkIdx :
              hunks[h].type = "equal" =>
                  SameLine(hunks[h].lLines[1], hunks[h].rLines[1], ignoreWhitespace)
        /\ (Len(left) = 1 /\ Len(right) = 1) =>
              (SameLine(left[1], right[1], ignoreWhitespace)
                  <=> (Len(hunks) = 1 /\ hunks[1].type = "equal"))
        /\ \A h \in HunkIdx :
              /\ hunks[h].lStart >= 0 =>
                    hunks[h].lLines[1] = At(left, hunks[h].lStart)
              /\ hunks[h].rStart >= 0 =>
                    hunks[h].rLines[1] = At(right, hunks[h].rStart)

\* an equal hunk that holds two different strings
C8_Witness ==
    /\ Returned
    /\ ignoreWhitespace
    /\ \E h \in HunkIdx :
          /\ hunks[h].type = "equal"
          /\ hunks[h].lLines[1] # hunks[h].rLines[1]
          /\ hunks[h].lLines[1] = LineAB /\ hunks[h].rLines[1] = LineABws

\* the side is valid JSON
LeftParses == JsonParse(leftText).ok
RightParses == JsonParse(rightText).ok

(* C9: a side that does not parse.  With jsonMode set, once the             *)
(* normalisation step of run is over and a side failed to parse, run has   *)
(* returned (it has not thrown) a value that holds only an error string;   *)
(* the string names 'Left pane' whenever the left text is invalid,         *)
(* whatever the right text is, and 'Right pane' when only the right text   *)
(* is invalid; no line was split and no alignment was made.                *)
C9_ParseFailureReturnsError ==
    (jsonMode /\ pc # "normalize" /\ ~(LeftParses /\ RightParses)) =>
        /\ pc = "returned"
        /\ DOMAIN result = {"error"}
        /\ result.error
              = <<IF LeftParses THEN "Right pane" ELSE "Left pane",
                  ": Invalid JSON - ", "SyntaxError">>
        /\ left = <<>> /\ right = <<>>
        /\ trace = <<>> /\ edits = <<>> /\ hunks = <<>>
        /\ stats = NoStats /\ html = NoHtml /\ plainText = <<>>

\* the left text parses and the right text does not
C9_Witness ==
    /\ jsonMode
    /\ pc = "returned"
    /\ LeftParses /\ ~RightParses
    /\ leftText = Layout(DocNested, OnLines)
    /\ rightText = TrailingComma
    /\ result.error[1] = "Right pane"

\* the text without the whitespace that stands outside string literals
RECURSIVE StripWsFrom(_, _, _)
StripWsFrom(t, i, inString) ==
    IF i > Len(t) THEN <<>>
    ELSE IF t[i] = QUOTE THEN <<t[i]>> \o StripWsFrom(t, i + 1, ~inString)
    ELSE IF ~inString /\ t[i] \in {SP, TAB, LF, CR} THEN StripWsFrom(t, i + 1, inString)
    ELSE <<t[i]>> \o StripWsFrom(t, i + 1, inString)

StripWs(t) == StripWsFrom(t, 1, FALSE)

SameDocumentInOrder ==
    /\ LeftParses /\ RightParses
    /\ \/ StripWs(leftText) = StripWs(rightText)
       \/ JsonParse(leftText).v = JsonParse(rightText).v

ValueOf(members, k) == (CHOOSE j \in 1..Len(members) : members[j].k = k)

RECURSIVE SameDocument(_, _)
SameDocument(v, w) ==
    IF v.t # w.t THEN FALSE
    ELSE IF v.t = "num" THEN v.n = w.n
    ELSE IF v.t = "str" THEN v.s = w.s
    ELSE /\ {v.members[j].k : j \in 1..Len(v.members)}
              = {w.members[j].k : j \in 1..Len(w.members)}
         /\ \A j \in 1..Len(v.members) :
               SameDocument(v.members[j].v,
                            w.members[ValueOf(w.members, v.members[j].k)].v)

-----------------------------------------------------------------------------
(* C11: two empty texts.  Outside JSON mode run on two empty texts is not  *)
(* an error: each text splits into its one empty line, and run returns a   *)
(* success value whose hunk sequence is the single Equal hunk pairing the  *)
(* two empty lines, with all counters zero.  The empty hunk list is what   *)
(* myersDiff returns for two empty line sequences, which run never hands   *)
(* it: once the texts are split both line sequences have an entry.         *)
C11_EmptyTextsOneEqualHunk ==
    /\ myersDiff(<<>>, <<>>, ignoreWhitespace).hunks = <<>>
    /\ pc \in {"diff", "stats", "render", "plain", "return"}
          => Len(left) >= 1 /\ Len(right) >= 1
    /\ (leftText = <<>> /\ rightText = <<>> /\ ~jsonMode /\ pc = "returned")
          => /\ DOMAIN result = {"html", "stats", "plainText", "hunks"}
             /\ result.hunks = <<Hunk("equal", NoLine, NoLine, 0, 0)>>
             /\ result.stats = [added |-> 0, removed |-> 0, changed |-> 0]

\* C11 as stated: run on two empty texts succeeds with an empty hunk sequence
C11_EmptyTextsEmptyHunks ==
    (leftText = <<>> /\ rightText = <<>> /\ pc = "returned")
        => /\ "hunks" \in DOMAIN result
           /\ result.hunks = <<>>

\* run has returned from two empty texts, outside JSON mode
C11_Witness ==
    /\ leftText = <<>> /\ rightText = <<>>
    /\ ~jsonMode
    /\ pc = "returned"
    /\ Len(result.hunks) = 1
    /\ result.hunks[1].type = "equal"

-----------------------------------------------------------------------------
\* the number of line feeds of a text: one per LF or CRLF terminator
CountLF(t) == Cardinality({i \in 1..Len(t) : t[i] = LF})

\* the lines put together again with a line feed between them
RECURSIVE Join(_)
Join(ls) ==
    IF Len(ls) = 1 THEN ls[1] ELSE ls[1] \o <<LF>> \o Join(Tail(ls))

\* the text with each CRLF terminator written as a line feed
RECURSIVE WithoutCRBeforeLF(_)
WithoutCRBeforeLF(t) ==
    IF t = <<>> THEN <<>>
    ELSE IF Len(t) >= 2 /\ t[1] = CR /\ t[2] = LF
         THEN <<LF>> \o WithoutCRBeforeLF(Tail(Tail(t)))
    ELSE <<t[1]>> \o WithoutCRBeforeLF(Tail(t))

SplitsRight(text, ls) ==
    /\ Len(ls) = CountLF(text) + 1
    /\ \A i \in 1..Len(ls) : \A j \in 1..Len(ls[i]) : ls[i][j] # LF
    /\ Join(ls) = WithoutCRBeforeLF(text)
    /\ (text # <<>> /\ text[Len(text)] = LF) => ls[Len(ls)] = <<>>

(* C12: splitLines is total and returns, for any text, as many entries as  *)
(* the text has line terminators plus one, an LF and a CRLF counting once  *)
(* each; no entry holds a line feed; the entries, in order and with one    *)
(* line feed between them, are the text with its CRLFs written as LF, so   *)
(* empty lines inside the text are kept and a text that ends in a          *)
(* terminator has a final empty entry.                                     *)
C12_SplitLinesCount ==
    pc = "diff" => SplitsRight(leftText, left) /\ SplitsRight(rightText, right)

\* a text with an LF, a CRLF, an empty line between them and a terminator at its end
C12_Witness ==
    /\ pc = "diff"
    /\ leftText = <<"a", LF, CR, LF>>
    /\ left = <<<<"a">>, <<>>, <<>>>>
    /\ rightText = <<"a", LF, CR, LF, CR, LF>>
    /\ Len(right) = 4

-----------------------------------------------------------------------------
\* the sequences seqs[lo..hi] put one after the other
RECURSIVE Concat(_, _, _)
Concat(seqs, lo, hi) ==
    IF lo > hi THEN <<>>
    ELSE IF lo = hi THEN seqs[lo]
    ELSE Concat(seqs, lo, (lo + hi) \div 2) \o Concat(seqs, (lo + hi) \div 2 + 1, hi)

\* wordDiff has tokenized its lines; it has returned
Tokenized == pc \in {"computeLCS", "walk", "wordDone"}
WordDone == pc = "wordDone"

\* a run of word characters, a run of whitespace, or one other character
IsToken(tok) ==
    /\ tok # <<>>
    /\ \A i \in 1..Len(tok) : CharClass(tok[i]) = CharClass(tok[1])
    /\ CharClass(tok[1]) = "other" => Len(tok) = 1

\* the runs are maximal: two neighbours are never of one run class
MaximalRuns(toks) ==
    \A k \in 1..(Len(toks) - 1) :
        CharClass(toks[k][1]) = CharClass(toks[k + 1][1])
            => CharClass(toks[k][1]) = "other"

TokensOf(line, toks) ==
    /\ \A k \in 1..Len(toks) : IsToken(toks[k])
    /\ MaximalRuns(toks)
    /\ Concat(toks, 1, Len(toks)) = line
    /\ line = <<>> => toks = <<>>

(* C13: tokenizeWords returns, for any line, tokens that are each a        *)
(* maximal run of word characters, a maximal run of whitespace or one      *)
(* other character, and whose concatenation in order is the line; this     *)
(* holds for the empty line, which has no token, and for a line of         *)
(* whitespace only.                                                        *)
C13_TokensRebuildLine ==
    Tokenized => TokensOf(lineA, tokA) /\ TokensOf(lineB, tokB)

\* a line of whitespace only beside a line of words, whitespace and symbols
C13_Witness ==
    /\ Tokenized
    /\ lineA = <<SP, SP>> /\ tokA = << <<SP, SP>> >>
    /\ lineB = SpecialB
    /\ Len(tokB) = 7
    /\ tokB[4] = <<"b", "_", "1">> /\ tokB[5] = <<TAB, SP>>

-----------------------------------------------------------------------------
\* the pieces of an html string that carry the mark, in order
WithMark(h, mark) == SelectSeq(h, LAMBDA piece : piece.mark = mark)

\* the token-pair cap of computeLCS is not exceeded
WithinCap == Len(tokA) * Len(tokB) <= LCSCap

\* the tokens of the common subsequence as they stand in the html
EscapedLcs == [k \in 1..Len(lcs) |-> Piece("none", lcs[k])]

(* C14: below the cap, wordDiff leaves unmarked on both sides exactly the  *)
(* tokens of the common subsequence computeLCS returned: on each side the  *)
(* unmarked tokens are, in number and in order, the tokens of lcs; every   *)
(* other left token is marked removed and every other right token added.   *)
C14_UnmarkedAreTheLCS ==
    (WordDone /\ WithinCap) =>
        /\ Len(WithMark(leftHtml, "none")) = Len(lcs)
        /\ Len(WithMark(rightHtml, "none")) = Len(lcs)
        /\ WithMark(leftHtml, "none") = EscapedLcs
        /\ WithMark(rightHtml, "none") = EscapedLcs
        /\ Len(WithMark(leftHtml, "word-removed")) = Len(tokA) - Len(lcs)
        /\ Len(WithMark(rightHtml, "word-added")) = Len(tokB) - Len(lcs)

-----------------------------------------------------------------------------
\* computeLCS has returned
LcsComputed == pc \in {"walk", "wordDone"}

\* the two token sequences have a token in common
CommonToken == \E i \in 1..Len(tokA) : \E j \in 1..Len(tokB) : tokA[i] = tokB[j]

\* every token of the side is in the html, in order, under the one mark
AllMarked(h, toks, mark) ==
    /\ Len(h) = Len(toks)
    /\ \A k \in 1..Len(h) : h[k] = Piece(mark, toks[k])

(* C15: the cap of computeLCS.  When the product of the two token counts   *)
(* is above 100000, computeLCS returns the empty sequence whatever the     *)
(* tokens are, and wordDiff then marks every left token removed and every  *)
(* right token added.  Up to the cap, the threshold itself included, the   *)
(* table is filled: the sequence returned is empty only if the lines have  *)
(* no token in common, and it is the whole left line when the left tokens  *)
(* begin the right line.                                                   *)
C15_CapSkipsLCS ==
    /\ (LcsComputed /\ ~WithinCap) => lcs = <<>>
    /\ (WordDone /\ ~WithinCap) =>
          /\ AllMarked(leftHtml, tokA, "word-removed")
          /\ AllMarked(rightHtml, tokB, "word-added")
    /\ (LcsComputed /\ WithinCap) => (lcs = <<>> <=> ~CommonToken)
    /\ (LcsComputed /\ WithinCap /\ Len(tokA) <= Len(tokB)
           /\ tokA = SubSeq(tokB, 1, Len(tokA))) => lcs = tokA

\* 250 by 401 equal tokens, 250 pairs above the cap: nothing is left unmarked
C15_Witness ==
    /\ WordDone
    /\ Len(tokA) = 250 /\ Len(tokB) = 401
    /\ Len(tokA) * Len(tokB) > LCSCap
    /\ CommonToken
    /\ lcs = <<>>
    /\ Len(leftHtml) = 250 /\ leftHtml[250].mark = "word-removed"
    /\ Len(rightHtml) = 401 /\ rightHtml[1].mark = "word-added"

-----------------------------------------------------------------------------
\* run has rendered the hunks; the rendering is a table
Rendered == pc \in {"plain", "return", "returned"} /\ html # NoHtml
IsTable == Rendered /\ html.element = "table"

HunkPositions == 0..(Len(hunks) - 1)

\* the rows of the table that show the hunk at position i
HunkRows(i) ==
    {k \in 1..Len(html.rows) :
        html.rows[k].class # "diff-separator" /\ html.rows[k].i = i}

\* the hunk at position i is shown by a row of the table
Shown(i) == IsTable /\ HunkRows(i) # {}

\* a hunk that is not Equal lies at most 4 positions away
NearChange(i) ==
    \E j \in HunkPositions :
        At(hunks, j).type # "equal" /\ i - j <= 4 /\ j - i <= 4

(* C16: in the side-by-side and in the inline rendering alike, the hunk at *)
(* position i is shown by a row if and only if some hunk that is not Equal *)
(* lies at a position j with |i - j| <= 4; so every hunk that is not Equal *)
(* is shown, and every hunk that is not shown is Equal.                    *)
C16_VisibleWithinContext ==
    Rendered =>
        \A i \in HunkPositions :
            /\ Shown(i) <=> NearChange(i)
            /\ At(hunks, i).type # "equal" => Shown(i)
            /\ ~Shown(i) => At(hunks, i).type = "equal"

\* a table with a hunk shown at distance 4 of the change and one hidden at distance 5
C16_Witness ==
    /\ IsTable
    /\ viewMode = "sidebyside"
    /\ Len(hunks) = 12
    /\ At(hunks, 6).type = "changed"
    /\ \A i \in HunkPositions : i # 6 => At(hunks, i).type = "equal"
    /\ Shown(2) /\ Shown(10)
    /\ ~Shown(1) /\ ~Shown(11)

-----------------------------------------------------------------------------
\* the positions of the separator rows in the table
Separators == {k \in 1..Len(html.rows) : html.rows[k].class = "diff-separator"}

\* the maximal runs of hunks that are not shown: where one starts, where it ends
HiddenRunStarts ==
    {s \in HunkPositions : ~Shown(s) /\ (s = 0 \/ Shown(s - 1))}

HiddenRunEnd(s) ==
    CHOOSE e \in s..(Len(hunks) - 1) :
        /\ \A t \in s..e : ~Shown(t)
        /\ e = Len(hunks) - 1 \/ Shown(e + 1)

\* the number a cell of digits shows
RECURSIVE NatOfDigits(_)
NatOfDigits(ds) ==
    IF ds = <<>> THEN 0
    ELSE 10 * NatOfDigits(SubSeq(ds, 1, Len(ds) - 1)) + DigitVal(ds[Len(ds)])

RECURSIVE SumSkipped(_)
SumSkipped(rows) ==
    IF rows = <<>> THEN 0
    ELSE (IF Head(rows).class = "diff-separator" THEN NatOfDigits(Head(rows).skipped) ELSE 0)
         + SumSkipped(Tail(rows))

\* the row at k is the separator of the hidden run s..e, and stands in its place
SeparatorOfRun(k, s, e) ==
    LET rows == html.rows
    IN  /\ rows[k].class = "diff-separator"
        /\ rows[k].skipped = NatToDigits(e - s + 1)
        /\ rows[k].plural <=> (e - s + 1 # 1)
        /\ rows[k].colspan = IF viewMode = "sidebyside" THEN 6 ELSE 3
        /\ IF s = 0 THEN k = 1
           ELSE k > 1 /\ rows[k - 1].class # "diff-separator" /\ rows[k - 1].i = s - 1
        /\ IF e = Len(hunks) - 1 THEN k = Len(rows)
           ELSE k < Len(rows) /\ rows[k + 1].class # "diff-separator"
                /\ rows[k + 1].i = e + 1

(* C17: in both tables each maximal run of consecutive hunks that are not  *)
(* shown, at the start, in the middle or at the end of the hunk list, has  *)
(* exactly one separator row, which stands where the run is (after the row *)
(* of the hunk before the run and before the row of the hunk after it) and *)
(* reports the length of the run; there are no other separator rows, no    *)
(* two separator rows are adjacent, and the counts of all separator rows   *)
(* plus the number of hunks shown make the number of hunks.                *)
C17_OneSeparatorPerHiddenRun ==
    IsTable =>
        /\ \A s \in HiddenRunStarts :
              Cardinality({k \in Separators : SeparatorOfRun(k, s, HiddenRunEnd(s))}) = 1
        /\ Cardinality(Separators) = Cardinality(HiddenRunStarts)
        /\ \A k \in Separators : (k + 1) \notin Separators
        /\ SumSkipped(html.rows) + Cardinality({i \in HunkPositions : Shown(i)})
              = Len(hunks)

\* two changes ten positions apart: a hidden run of two hunks in the middle
C17_Witness ==
    /\ IsTable
    /\ viewMode = "inline"
    /\ Len(hunks) = 12
    /\ At(hunks, 0).type = "changed" /\ At(hunks, 11).type = "removed"
    /\ HiddenRunStarts = {5}
    /\ HiddenRunEnd(5) = 6
    /\ \E k \in Separators : SeparatorOfRun(k, 5, 6) /\ html.rows[k].skipped = <<"2">>

-----------------------------------------------------------------------------
\* every hunk is Equal
OnlyEqual == \A i \in HunkPositions : At(hunks, i).type = "equal"

(* C18: in the side-by-side and in the inline mode alike the html that run *)
(* returns is the 'no differences' placeholder, and not a table, if and    *)
(* only if no hunk is other than Equal; otherwise it is the table of the   *)
(* mode.  Two identical line sequences give Equal hunks only, one per      *)
(* line, and so the placeholder.                                           *)
C18_PlaceholderIffNoChange ==
    /\ Rendered =>
          /\ html = NoDifferences <=> OnlyEqual
          /\ html # NoDifferences =>
                /\ html.element = "table"
                /\ html.class = IF viewMode = "sidebyside" THEN "diff-table"
                                ELSE "inline-table"
          /\ left = right => OnlyEqual /\ Len(hunks) = Len(left) /\ html = NoDifferences
    /\ pc = "returned" => result.html = html

\* run has returned the placeholder for two identical sequences of twelve lines
C18_Witness ==
    /\ pc = "returned"
    /\ viewMode = "sidebyside"
    /\ Len(left) = 12 /\ left = right
    /\ Len(result.hunks) = 12
    /\ result.html = NoDifferences

-----------------------------------------------------------------------------
\* the rows of the table that are not separators, in order
HunkRowSeq == SelectSeq(html.rows, LAMBDA row : row.class # "diff-separator")

\* the positions of the hunks shown, counted once for each of their rows
ShownPerRow == [k \in 1..Len(HunkRowSeq) |-> HunkRowSeq[k].i]

\* the hunks follow each other in the rows as they do in the hunk list
InHunkOrder == \A k \in 1..(Len(HunkRowSeq) - 1) : ShownPerRow[k] <= ShownPerRow[k + 1]

\* the one row of a hunk in the side-by-side table
IsSideRowOf(row, h) ==
    LET marked == wordDiff(h.lLines[1], h.rLines[1])
    IN  /\ row.class = "diff-row"
        /\ row.rowClass = typeToRowClass(h.type)
        /\ h.type = "changed" =>
              /\ row.lCode = marked.leftHtml
              /\ row.rCode = marked.rightHtml

\* the rows k.. of the inline table are the rows of the hunk h
AreInlineRowsOf(rows, k, h) ==
    LET marked == wordDiff(h.lLines[1], h.rLines[1])
    IN  IF h.type = "changed"
        THEN /\ k + 1 <= Len(rows)
             /\ rows[k].class = "inline-removed" /\ rows[k].code = marked.leftHtml
             /\ rows[k + 1].class = "inline-added" /\ rows[k + 1].code = marked.rightHtml
             /\ rows[k + 1].i = rows[k].i
        ELSE /\ h.type = "equal" => rows[k].class = "inline-equal"
             /\ h.type = "removed" => rows[k].class = "inline-removed"
             /\ h.type = "added" => rows[k].class = "inline-added"

(* C19: the side-by-side table has exactly one row for each hunk shown.    *)
(* The inline table has one row for each Equal, Removed or Added hunk      *)
(* shown and, for each Changed hunk, exactly two rows: the removed row     *)
(* and right after it the added row, which hold the left and the right     *)
(* html wordDiff returns for the two lines.  The rows follow the order of  *)
(* the hunks.                                                              *)
C19_RowsPerHunk ==
    IsTable =>
        /\ InHunkOrder
        /\ \A i \in HunkPositions :
              Shown(i) =>
                  LET h == At(hunks, i)
                      first == CHOOSE k \in HunkRows(i) : \A k2 \in HunkRows(i) : k <= k2
                  IN  IF viewMode = "sidebyside"
                      THEN /\ Cardinality(HunkRows(i)) = 1
                           /\ IsSideRowOf(html.rows[first], h)
                      ELSE /\ Cardinality(HunkRows(i)) = IF h.type = "changed" THEN 2 ELSE 1
                           /\ AreInlineRowsOf(html.rows, first, h)

\* an inline table with the two rows of a Changed hunk between rows of Equal hunks
C19_Witness ==
    /\ IsTable
    /\ viewMode = "inline"
    /\ Len(hunks) = 3
    /\ At(hunks, 1).type = "changed"
    /\ Len(html.rows) = 4
    /\ html.rows[2].class = "inline-removed" /\ html.rows[3].class = "inline-added"
    /\ html.rows[1].class = "inline-equal" /\ html.rows[4].class = "inline-equal"

-----------------------------------------------------------------------------
\* the character an entity at the head of t stands for, if one is there
EntityAt(t) == {c \in EscChars : Len(t) >= Len(ESC(c)) /\ SubSeq(t, 1, Len(ESC(c))) = ESC(c)}

\* no character with a meaning in html stands in t other than the
\* ampersand of one of the five entities
RECURSIVE SafeText(_)
SafeText(t) ==
    IF t = <<>> THEN TRUE
    ELSE IF Head(t) \in {LT, GT, QUOTE, APOS} THEN FALSE
    ELSE IF Head(t) = AMP
         THEN /\ EntityAt(t) # {}
              /\ SafeText(SubSeq(t, Len(ESC(CHOOSE c \in EntityAt(t) : TRUE)) + 1, Len(t)))
    ELSE SafeText(Tail(t))

\* the text a browser shows for t: every entity read back as its character
RECURSIVE Unescape(_)
Unescape(t) ==
    IF t = <<>> THEN <<>>
    ELSE IF EntityAt(t) # {}
         THEN LET c == CHOOSE c \in EntityAt(t) : TRUE
              IN  <<c>> \o Unescape(SubSeq(t, Len(ESC(c)) + 1, Len(t)))
    ELSE <<Head(t)>> \o Unescape(Tail(t))

\* the texts of the pieces of a cell, one after the other
CellText(cell) == Concat([p \in 1..Len(cell) |-> cell[p].text], 1, Len(cell))

Marks == {"none", "word-added", "word-removed"}

\* the cell shows the line, escaped, with no markup but the word spans
ShowsEscaped(cell, line) ==
    /\ \A p \in 1..Len(cell) : cell[p].mark \in Marks /\ SafeText(cell[p].text)
    /\ Unescape(CellText(cell)) = line

\* the cells of a row that show text of the hunk h show it escaped
RowEscaped(row, h) ==
    IF row.class = "diff-row"
    THEN ShowsEscaped(row.lCode, h.lLines[1]) /\ ShowsEscaped(row.rCode, h.rLines[1])
    ELSE IF row.class = "inline-added" THEN ShowsEscaped(row.code, h.rLines[1])
    ELSE ShowsEscaped(row.code, h.lLines[1])

\* the cells of the row that show a number hold digits only
NumbersOnly(row) ==
    LET cells == IF row.class = "diff-row" THEN {row.lNum, row.rNum}
                 ELSE {row.gutter1, row.gutter2} \ {Blank, Minus}
    IN  \A cell \in cells : \A p \in 1..Len(cell) : IsDigit(cell[p])

(* C20: for any two line sequences and either view mode, the text of the   *)
(* lines reaches the html only through escape: in every cell of code none  *)
(* of the characters < > " ' stands unescaped, every & begins one of the   *)
(* five entities, and the cell reads back as the line of its hunk; the     *)
(* only markup around the escaped text is the word-added and word-removed  *)
(* span, and the other cells hold numbers and fixed signs only.            *)
C20_UserTextEscaped ==
    IsTable =>
        \A k \in 1..Len(html.rows) :
            html.rows[k].class # "diff-separator" =>
                /\ RowEscaped(html.rows[k], At(hunks, html.rows[k].i))
                /\ NumbersOnly(html.rows[k])

\* a side-by-side row whose right cell holds the five characters, each as its entity
C20_Witness ==
    /\ IsTable
    /\ viewMode = "sidebyside"
    /\ Len(hunks) = 2
    /\ At(hunks, 1).type = "changed"
    /\ \A c \in {LT, GT, QUOTE, APOS} :
          \E p \in 1..Len(html.rows[2].rCode) : html.rows[2].rCode[p].text = ESC(c)
    /\ \E p \in 1..Len(html.rows[2].lCode) :
          /\ html.rows[2].lCode[p].text = ESC(AMP)
          /\ html.rows[2].lCode[p].mark = "word-removed"


-----------------------------------------------------------------------------
\* computeStats has returned
StatsDone == pc \in {"render", "plain", "return", "returned"}

\* the hunks of one type, in order
OfType(hs, t) == SelectSeq(hs, LAMBDA h : h.type = t)

NonEqual(hs) == SelectSeq(hs, LAMBDA h : h.type # "equal")

(* C21: for any hunk sequence computeStats returns the number of Added,    *)
(* of Removed and of Changed hunks, Equal hunks counted nowhere, so that   *)
(* added + removed + changed is the number of non-Equal hunks; run returns *)
(* these stats.                                                            *)
C21_StatsCountByKind ==
    StatsDone =>
        /\ stats.added = Len(OfType(hunks, "added"))
        /\ stats.removed = Len(OfType(hunks, "removed"))
        /\ stats.changed = Len(OfType(hunks, "changed"))
        /\ stats.added + stats.removed + stats.changed = Len(NonEqual(hunks))
        /\ DOMAIN stats = {"added", "removed", "changed"}
        /\ pc = "returned" => result.stats = stats

C21_Witness ==
    /\ StatsDone
    /\ stats.added > 0 /\ stats.removed > 0 /\ stats.changed > 0
    /\ Len(NonEqual(hunks)) < Len(hunks)

-----------------------------------------------------------------------------
\* renderPlainText has returned
PlainDone == pc \in {"return", "returned"}

\* the lines a hunk is written as, without their line feed
PlainLinesOf(h) ==
    IF h.type = "equal" THEN << <<SP, SP>> \o h.lLines[1] >>
    ELSE IF h.type = "removed" THEN << <<"-", SP>> \o h.lLines[1] >>
    ELSE IF h.type = "added" THEN << <<"+", SP>> \o h.rLines[1] >>
    ELSE << <<"-", SP>> \o h.lLines[1], <<"+", SP>> \o h.rLines[1] >>

\* the lines, each ended by a line feed, one after the other
Terminated(ls) == Concat([k \in 1..Len(ls) |-> ls[k] \o <<LF>>], 1, Len(ls))

UnifiedText(hs) ==
    Concat([k \in 1..Len(hs) |-> Terminated(PlainLinesOf(hs[k]))], 1, Len(hs))

(* C22: renderPlainText writes, in hunk order, one line ended by a line    *)
(* feed per Equal hunk (two spaces and the line), per Removed hunk ("- "   *)
(* and the left line) and per Added hunk ("+ " and the right line), and    *)
(* for a Changed hunk the "- " line of the left text followed at once by   *)
(* the "+" line of the right text; no hunk is left out, so the text has    *)
(* Equal + Removed + Added + 2 * Changed lines.                            *)
C22_PlainTextLinePerHunk ==
    PlainDone =>
        /\ plainText = UnifiedText(hunks)
        /\ CountLF(plainText) =
              Len(OfType(hunks, "equal")) + Len(OfType(hunks, "removed"))
              + Len(OfType(hunks, "added")) + 2 * Len(OfType(hunks, "changed"))
        /\ pc = "returned" => result.plainText = plainText

C22_Witness ==
    /\ PlainDone
    /\ \A t \in HunkTypes : OfType(hunks, t) # <<>>
    /\ IsTable
    /\ \E i \in HunkPositions : ~Shown(i)

-----------------------------------------------------------------------------
\* the options of the call, and the same options with another view mode
Options ==
    [ignoreWhitespace |-> ignoreWhitespace, jsonMode |-> jsonMode, viewMode |-> viewMode]

InView(vm) == [Options EXCEPT !.viewMode = vm]

\* run has returned a diff, not an error
ReturnedDiff == pc = "returned" /\ "hunks" \in DOMAIN result

\* two values run returns agree on everything but the html
SameButHtml(r1, r2) ==
    IF "error" \in DOMAIN r1 \/ "error" \in DOMAIN r2 THEN r1 = r2
    ELSE /\ r1.plainText = r2.plainText
         /\ r1.stats = r2.stats
         /\ r1.hunks = r2.hunks

(* C23: for the same two texts and the same ignoreWhitespace and jsonMode, *)
(* run returns the same plainText, stats and hunks whatever the viewMode   *)
(* (sidebyside, inline or absent); the html alone depends on it, being the *)
(* side-by-side table for sidebyside and the inline one otherwise.         *)
C23_ViewModeOnlyChangesHtml ==
    pc = "returned" =>
        \A inView \in {[vm \in ViewModes |-> run(leftText, rightText, InView(vm))]} :
            /\ \A vm \in ViewModes : SameButHtml(result, inView[vm])
            /\ \A vm1, vm2 \in ViewModes : SameButHtml(inView[vm1], inView[vm2])
            /\ ReturnedDiff =>
                  /\ inView["inline"].html = inView["undefined"].html
                  /\ HasChanges(hunks) =>
                        inView["sidebyside"].html # inView["inline"].html

C23_Witness ==
    /\ ReturnedDiff
    /\ viewMode = "sidebyside"
    /\ IsTable
    /\ \E i \in HunkPositions : ~Shown(i)
    /\ result.html # run(leftText, rightText, InView("inline")).html
    /\ result.stats.changed > 0

-----------------------------------------------------------------------------
\* the rows of the table that show a hunk, and the hunk a row shows
ShownRows == {k \in 1..Len(html.rows) : html.rows[k].class # "diff-separator"}
HunkOfRow(k) == At(hunks, html.rows[k].i)

\* the cell shows the 1-based number of the line at the 0-based index idx
ShowsLineNumber(cell, idx) ==
    /\ cell # <<>>
    /\ \A d \in 1..Len(cell) : IsDigit(cell[d])
    /\ NatOfDigits(cell) = idx + 1

\* the side-by-side row shows the number of each side the hunk has
SideRowNumbered(row, h) ==
    /\ IF h.lStart >= 0
       THEN ShowsLineNumber(row.lNum, h.lStart) /\ At(left, h.lStart) = h.lLines[1]
       ELSE row.lNum = <<>>
    /\ IF h.rStart >= 0
       THEN ShowsLineNumber(row.rNum, h.rStart) /\ At(right, h.rStart) = h.rLines[1]
       ELSE row.rNum = <<>>

\* the inline row shows the left number of the line it takes from the left
\* and the right number of the line it takes from the right
InlineRowNumbered(row, h) ==
    IF row.class = "inline-added"
    THEN /\ h.rStart >= 0
         /\ ShowsLineNumber(row.gutter2, h.rStart)
         /\ At(right, h.rStart) = h.rLines[1]
         /\ row.gutter1 = Blank
    ELSE /\ h.lStart >= 0
         /\ ShowsLineNumber(row.gutter1, h.lStart)
         /\ At(left, h.lStart) = h.lLines[1]
         /\ row.gutter2 \in {Blank, Minus}

(* C24: line numbers are 1-based and counted per side over every hunk      *)
(* that has the side, hidden hunks included: in the side-by-side and in    *)
(* the inline table alike, every left number shown for a hunk is the index *)
(* of its line in the left sequence plus 1 and every right number shown is *)
(* the index of its line in the right sequence plus 1, so both renderings  *)
(* give a hunk the same numbers.                                           *)
C24_LineNumbersArePositions ==
    IsTable =>
        \A k \in ShownRows :
            IF viewMode = "sidebyside"
            THEN SideRowNumbered(html.rows[k], HunkOfRow(k))
            ELSE InlineRowNumbered(html.rows[k], HunkOfRow(k))

\* a hunk with different numbers on its two sides is shown after hidden hunks
C24_Witness ==
    /\ IsTable
    /\ viewMode = "inline"
    /\ \E i, j \in HunkPositions :
          /\ j < i
          /\ ~Shown(j)
          /\ Shown(i)
          /\ At(hunks, i).lStart >= 0
          /\ At(hunks, i).rStart >= 0
          /\ At(hunks, i).lStart # At(hunks, i).rStart
          /\ At(hunks, i).type = "changed"

-----------------------------------------------------------------------------
\* the arguments of an activation
ArgsOf(f) == <<f.leftText, f.rightText, f.options>>

\* what the call returns when it is the only one made
Alone(f) == run(f.leftText, f.rightText, f.options)

CallsReturnAsAlone ==
    \A c \in Callers :
        calls[c].pc = "returned" => calls[c].result = Alone(calls[c])

ArgumentsKept ==
    \A c \in Callers :
        Running(calls[c]) =>
            /\ calls'[c].pc # "idle"
            /\ ArgsOf(calls'[c]) = ArgsOf(calls[c])

(* C25: the engine keeps no state between invocations: however the calls   *)
(* of run follow one another and however their statements interleave,      *)
(* every call returns exactly what it returns when made alone with the     *)
(* same arguments, and no statement of a call changes the texts or the     *)
(* options the call was given.                                             *)
C25_CallsDoNotInterfere == []CallsReturnAsAlone /\ [][ArgumentsKept]_vars

\* one caller has returned a diff while the other, called with other
\* arguments and having its hunks already, has not returned yet
C25_Witness ==
    /\ calls[1].pc = "returned"
    /\ "hunks" \in DOMAIN calls[1].result
    /\ calls[1].result.stats.changed > 0
    /\ calls[2].pc \in {"stats", "render", "plain", "return"}
    /\ ArgsOf(calls[2]) # ArgsOf(calls[1])
    /\ calls[2].hunks # calls[1].hunks


-----------------------------------------------------------------------------
(* Changed hunks pair lines that differ *)

ChangedIdx == {h \in HunkIdx : hunks[h].type = "changed"}

(* C26: every changed hunk myersDiff returns pairs two lines that differ   *)
(* under the active line comparison, that is after whitespace folding when *)
(* ignoreWhitespace is set: the positional pairing inside a block of       *)
(* deletes and inserts never pairs a deleted line with an equal inserted   *)
(* line.                                                                   *)
C26_ChangedLinesDiffer ==
    Returned =>
        \A h \in ChangedIdx :
            ~SameLine(hunks[h].lLines[1], hunks[h].rLines[1], ignoreWhitespace)

\* whitespace ignored, a block of two deletes and two inserts paired into two
\* changed hunks, while another left line equals a right line under folding
C26_Witness ==
    /\ Returned
    /\ ignoreWhitespace
    /\ \E i \in DeleteRunStarts(edits) : BlockP(edits, i) = 2 /\ BlockQ(edits, i) = 2
    /\ Cardinality(ChangedIdx) = 2
    /\ \E p \in 1..Len(left), q \in 1..Len(right) :
          left[p] # right[q] /\ SameLine(left[p], right[q], TRUE)


-----------------------------------------------------------------------------
(* Deletions come before the insertions they touch *)

\* the first hunk made from the edit at index i of a block: the hunk that
\* starts at the deleted line
HunkOfDelete(i) == CHOOSE h \in HunkIdx : hunks[h].lStart = edits[i].li

Unpaired == {"removed", "added"}

(* C27: in the edit list myersDiff reconstructs an insert edit is never    *)
(* immediately followed by a delete edit; so in the returned hunk list a   *)
(* removed hunk and an added hunk are never adjacent in either order, and  *)
(* wherever deletions and insertions touch with no equal line between them *)
(* they appear as changed hunks followed by a surplus of one kind only.    *)
C27_DeletesBeforeInserts ==
    Returned =>
        /\ \A i \in 1..(Len(edits) - 1) :
              ~(edits[i].type = "insert" /\ edits[i + 1].type = "delete")
        /\ \A h \in 1..(Len(hunks) - 1) :
              /\ {hunks[h].type, hunks[h + 1].type} # Unpaired
              /\ hunks[h].type \in Unpaired => hunks[h + 1].type # "changed"
        /\ \A i \in DeleteRunStarts(edits) :
              BlockQ(edits, i) > 0 =>
                  LET h0 == HunkOfDelete(i)
                      p == BlockP(edits, i)
                      q == BlockQ(edits, i)
                  IN  /\ \A j \in 0..(Min(p, q) - 1) : hunks[h0 + j].type = "changed"
                      /\ \A j \in Min(p, q)..(Max(p, q) - 1) :
                            hunks[h0 + j].type = (IF p > q THEN "removed" ELSE "added")
                      /\ h0 + Max(p, q) <= Len(hunks)
                            => hunks[h0 + Max(p, q)].type = "equal"

\* a delete touched by two inserts, then an equal line: a changed hunk, a
\* surplus added hunk and the equal hunk
C27_Witness ==
    /\ Returned
    /\ Len(edits) = 4
    /\ edits[1].type = "delete" /\ edits[2].type = "insert"
    /\ edits[3].type = "insert" /\ edits[4].type = "equal"
    /\ Len(hunks) = 3
    /\ hunks[1].type = "changed" /\ hunks[2].type = "added" /\ hunks[3].type = "equal"


-----------------------------------------------------------------------------
(* wordDiff consumes every token once and in order *)

\* the text of an html string once the span wrappers are removed
Stripped(h) == Concat([k \in 1..Len(h) |-> h[k].text], 1, Len(h))

\* the line with escape applied to each of its characters in turn
EscapedByChar(line) ==
    Concat([k \in 1..Len(line) |-> escape(<<line[k]>>)], 1, Len(line))

\* lines short enough for escape to be applied to the whole line at once
MaxEscapeLen == 16

EscapedLine(h, line) ==
    /\ Stripped(h) = EscapedByChar(line)
    /\ Len(line) <= MaxEscapeLen => Stripped(h) = escape(line)

\* the html string holds one piece for every token, in the order of the
\* tokens, each either unmarked or under the mark of its side
OnePiecePerToken(h, toks, mark) ==
    /\ Len(h) = Len(toks)
    /\ \A k \in 1..Len(h) :
          h[k].text = escape(toks[k]) /\ h[k].mark \in {"none", mark}

\* the state in which the loop of wordDiff is left after at most one
\* iteration for every token
WordLoopExit ==
    WordWalk([tokA |-> tokA, tokB |-> tokB, lcs |-> lcs], Len(tokA) + Len(tokB),
             [ai |-> 0, bi |-> 0, li |-> 0, leftHtml |-> <<>>, rightHtml |-> <<>>])

(* C28: for any two lines wordDiff terminates and consumes every token of  *)
(* each line exactly once and in order: the loop ends with both token      *)
(* sequences used up, removing the span wrappers from leftHtml gives the   *)
(* escaped left line and from rightHtml the escaped right line, and the    *)
(* sequence of unmarked tokens is the same on both sides.                  *)
C28_EveryTokenOnceInOrder ==
    WordDone =>
        /\ \A exit \in {WordLoopExit} :
              /\ exit.ai = Len(tokA) /\ exit.bi = Len(tokB)
              /\ exit.leftHtml = leftHtml /\ exit.rightHtml = rightHtml
        /\ OnePiecePerToken(leftHtml, tokA, "word-removed")
        /\ OnePiecePerToken(rightHtml, tokB, "word-added")
        /\ EscapedLine(leftHtml, lineA)
        /\ EscapedLine(rightHtml, lineB)
        /\ WithMark(leftHtml, "none") = WithMark(rightHtml, "none")

\* lines with escaped characters, with tokens left unmarked and tokens
\* marked on both sides
C28_Witness ==
    /\ WordDone
    /\ lineA = SpecialA /\ lineB = SpecialB
    /\ WithMark(leftHtml, "none") # <<>>
    /\ WithMark(leftHtml, "word-removed") # <<>>
    /\ WithMark(rightHtml, "word-added") # <<>>
    /\ Stripped(leftHtml) # lineA


-----------------------------------------------------------------------------
(* The table of computeLCS stays within sixteen bits *)

\* computeLCS has filled its table: both token counts positive, their
\* product within the cap
TableFilled == LcsComputed /\ Len(tokA) > 0 /\ Len(tokB) > 0 /\ WithinCap

\* the largest value of a signed sixteen-bit element
Int16Max == 32767

\* the largest token count both lines can have within the cap
MaxSquare == CHOOSE k \in 1..LCSCap : k * k <= LCSCap /\ (k + 1) * (k + 1) > LCSCap

(* C30: whenever computeLCS runs its dynamic programme, both token counts  *)
(* positive and their product at most 100000, every value stored in the    *)
(* Int16Array table is at most min(n, m), which is at most 316, so no      *)
(* stored value leaves the signed sixteen-bit range: every element holds   *)
(* the value the assignment computed.                                      *)
C30_TableWithinInt16 ==
    TableFilled =>
        \A dp \in {Dp(tokA, tokB)} :
            /\ Min(Len(tokA), Len(tokB)) <= MaxSquare
            /\ MaxSquare = 316
            /\ \A i \in 0..Len(tokA) : \A j \in 0..Len(tokB) :
                  /\ DpAt(dp, i, j) >= 0
                  /\ DpAt(dp, i, j) <= Min(Len(tokA), Len(tokB))
                  /\ DpAt(dp, i, j) <= Int16Max
                  /\ (i > 0 /\ j > 0) =>
                        DpAt(dp, i, j) = DpCell(tokA, tokB, i, j, dp[i], dp[i + 1])

\* 316 by 316 equal tokens, the largest square within the cap: the last
\* element of the table holds 316
C30_Witness ==
    /\ TableFilled
    /\ Len(tokA) = MaxSquare /\ Len(tokB) = MaxSquare
    /\ Len(lcs) = MaxSquare
    /\ DpAt(Dp(tokA, tokB), MaxSquare, MaxSquare) = MaxSquare

-----------------------------------------------------------------------------
(* The compare flag is always reset *)

\* a callback is pending that ends an animated compare: the compare itself,
\* or the reset the first controller schedules in its finally clause
ResetPending ==
    \E t \in timers :
        \/ t.kind = "compare" /\ t.showLoadAnim
        \/ t.kind = "reset" /\ controller = "first"

(* C29: once a compare started from the button or the shortcut, that is    *)
(* runCompare with the loading animation, has set isComparing, the flag is *)
(* always eventually reset to false, whether DiffEngine.run succeeds,      *)
(* returns an error result or throws: while the flag is set a callback     *)
(* that leads to its reset is pending, so later compare requests are       *)
(* never blocked forever.                                                  *)
C29_FlagEventuallyReset ==
    /\ [](isComparing => ResetPending)
    /\ isComparing ~> ~isComparing
    /\ []<>(~isComparing)

\* the first controller after a compare that threw: the failure was
\* reported, the button fades out, the flag is still set and only the
\* reset is pending
C29_Witness ==
    /\ controller = "first"
    /\ isComparing
    /\ toast = "Compare failed"
    /\ btnClasses = {"loading", "fade-out"}
    /\ timers = {ResetTimer}

=============================================================================
